---------------------------- MODULE Spec2Model ----------------------------
(***************************************************************************)
(* Model of the job relevance ranker (filter_jobs_by_category and its      *)
(* fuzzy matcher keyword_in_text), of the job merger (_fetch_all_jobs), of *)
(* the two-worker fetch of display_job_recommendations_dual, of the skill  *)
(* categorizer (categorize_skills) and of the reruns of main (upload,      *)
(* score, jobs, database, chat) of src/App.py, and of check_gemini_health  *)
(* of src/chat_service.py.                                                 *)
(*                                                                         *)
(* Texts are TLA+ strings; Chars turns one into its sequence of one-       *)
(* character strings so that lower(), replace() and the regular expression *)
(* of keyword_in_text are computed character by character.  A job is a     *)
(* record whose DOMAIN is the set of keys the dict has; Get models         *)
(* dict.get(key, default).  A list position stands for the identity of the *)
(* dict object at that position, so a returned list is a sequence of       *)
(* positions of the input list.                                            *)
(***************************************************************************)
EXTENDS Integers, Sequences, FiniteSets, TLC

VARIABLES
    jobs,        \* the list object passed to filter_jobs_by_category
    category,    \* predicted_category
    pc,          \* "call" before the call, "done" after it returned
    scores,      \* the scores the loop computed, one record per job
    filtered_jobs, \* the local filtered_jobs after the sort, as positions
    ret,         \* the returned list, as positions of the input list
    jooble_jobs, \* records returned by JobAPIService.fetch_jobs_from_jooble
    scraped_jobs,\* records returned by scrape_all
    mpc,         \* "fetch" before _fetch_all_jobs ran, "done" after it returned,
                 \* "raised" after an exception left it
    unique,      \* the list _fetch_all_jobs returns
    dpc,         \* the line display_job_recommendations_dual is at
    future,      \* f1 and f2: the state and the result of each future
    completed,   \* the futures in the order their workers finished
    dual_jooble_jobs, \* jooble_jobs of display_job_recommendations_dual
    internshala_jobs, \* internshala_jobs of display_job_recommendations_dual
    skills,      \* the list passed to categorize_skills
    spc,         \* "call" before categorize_skills ran, "done" after
    res,         \* what norm(s) gave for each s of skills
    out,         \* the dict categorize_skills returns, as its (key, value) items
    session_state, \* st.session_state: the keys set so far and their values
    db_rows,     \* the rows of user_data written so far, as (resume_id, email)
    rpc,         \* the part of main the current rerun is at, "idle" between reruns
    reruns,      \* the number of reruns so far
    pdf_file,    \* the value of the file uploader in this rerun
    role,        \* the value of the target role selectbox in this rerun
    chat_input,  \* what the user did in the chat in this rerun
    resume_data, \* the local resume_data of main
    parsed,      \* whether this rerun called parse_resume, and from where
    prediction,  \* what predict_resume_category returned in this rerun
    resume_for_score, \* _resume_for_score, the record passed to the scorer
    points,      \* what the sub-scorers find in the record, per component
    breakdown,   \* the breakdown calculate_resume_score_breakdown returned
    filtering,   \* whether the job lists are filtered by category in this rerun
    insert_call, \* the call of insert_user_data of this rerun, if any
    gemini_env,  \* GEMINI_API_KEY / GEMINI_MODEL of the environment and secrets
    hpc,         \* "call" before check_gemini_health ran, "done" after
    health       \* what check_gemini_health ended with

vars ==
    <<jobs, category, pc, scores, filtered_jobs, ret, jooble_jobs, scraped_jobs, mpc, unique,
      dpc, future, completed, dual_jooble_jobs, internshala_jobs,
      skills, spc, res, out,
      session_state, db_rows, rpc, reruns, pdf_file, role, chat_input, resume_data, parsed,
      prediction, resume_for_score, points, breakdown, filtering, insert_call,
      gemini_env, hpc, health>>

fetchVars == <<jooble_jobs, scraped_jobs, mpc, unique>>
rankVars == <<jobs, category, pc, scores, filtered_jobs, ret>>
dualVars == <<dpc, future, completed, dual_jooble_jobs, internshala_jobs>>
skillVars == <<skills, spc, res, out>>
runVars ==
    <<pdf_file, role, chat_input, resume_data, parsed, prediction, resume_for_score,
      breakdown, filtering, insert_call>>
sessionVars == <<session_state, db_rows, rpc, reruns, points, runVars>>
healthVars == <<gemini_env, hpc, health>>

-----------------------------------------------------------------------------
(* Python values *)

\* None: a token that no text of the model equals
None == "<None>"

\* dict.get(key, default)
Get(d, key, default) == IF key \in DOMAIN d THEN d[key] ELSE default

\* x or y, for x a string or None
OrElse(x, y) == IF x = None \/ x = "" THEN y ELSE x

\* truthiness of a string or None
TruthyStr(x) == x # None /\ x # ""

-----------------------------------------------------------------------------
(* Characters and strings *)

Chars(s) == [i \in 1..Len(s) |-> SubSeq(s, i, i)]

UpperCase == {"A","B","C","D","E","F","G","H","I","J","K","L","M",
              "N","O","P","Q","R","S","T","U","V","W","X","Y","Z"}
LowerCase == {"a","b","c","d","e","f","g","h","i","j","k","l","m",
              "n","o","p","q","r","s","t","u","v","w","x","y","z"}
Digits == {"0","1","2","3","4","5","6","7","8","9"}

ToLower ==
    [c \in UpperCase |->
       CASE c = "A" -> "a" [] c = "B" -> "b" [] c = "C" -> "c" [] c = "D" -> "d"
         [] c = "E" -> "e" [] c = "F" -> "f" [] c = "G" -> "g" [] c = "H" -> "h"
         [] c = "I" -> "i" [] c = "J" -> "j" [] c = "K" -> "k" [] c = "L" -> "l"
         [] c = "M" -> "m" [] c = "N" -> "n" [] c = "O" -> "o" [] c = "P" -> "p"
         [] c = "Q" -> "q" [] c = "R" -> "r" [] c = "S" -> "s" [] c = "T" -> "t"
         [] c = "U" -> "u" [] c = "V" -> "v" [] c = "W" -> "w" [] c = "X" -> "x"
         [] c = "Y" -> "y" [] c = "Z" -> "z"]

LowerChar(c) == IF c \in UpperCase THEN ToLower[c] ELSE c

\* str.lower()
Lower(cs) == [i \in 1..Len(cs) |-> LowerChar(cs[i])]

\* str.replace('-', ' ')
HyphenToSpace(cs) == [i \in 1..Len(cs) |-> IF cs[i] = "-" THEN " " ELSE cs[i]]

\* ' '.join(list of strings), as characters
RECURSIVE JoinSpace(_)
JoinSpace(ss) ==
    IF ss = <<>> THEN <<>>
    ELSE IF Len(ss) = 1 THEN Chars(ss[1])
    ELSE Chars(ss[1]) \o <<" ">> \o JoinSpace(Tail(ss))

-----------------------------------------------------------------------------
(* keyword_in_text: re.search(r'\b' + re.escape(keyword).replace(r'\-',     *)
(* '[-\s]?') + r's?\b', text, re.IGNORECASE)                                *)

\* \w
IsWordChar(c) == c \in UpperCase \cup LowerCase \cup Digits \cup {"_"}

\* \s
IsSpaceChar(c) == c \in {" ", "\t", "\n", "\r"}

\* \b at position p of text: between text[p-1] and text[p]
WordBoundary(text, p) ==
    LET before == p > 1 /\ p - 1 <= Len(text) /\ IsWordChar(text[p - 1])
        after  == p >= 1 /\ p <= Len(text) /\ IsWordChar(text[p])
    IN  before # after

\* The pattern between the two \b: one element per keyword character.
\* re.escape turns '-' into '\-', which the replace turns into '[-\s]?';
\* every other character stands for itself.  The last element is 's?'.
KeywordPattern(keyword) ==
    LET kc == Chars(keyword) IN
    [i \in 1..Len(kc) |->
        IF kc[i] = "-" THEN [t |-> "optsep"] ELSE [t |-> "lit", c |-> kc[i]]]
    \o << [t |-> "optlit", c |-> "s"] >>

\* The positions at which a match of pat[k..] that starts at text[i] can end.
RECURSIVE MatchEnds(_, _, _, _)
MatchEnds(pat, k, text, i) ==
    IF k > Len(pat) THEN {i}
    ELSE
      LET e    == pat[k]
          here == i <= Len(text)
      IN  CASE e.t = "lit" ->
                 IF here /\ LowerChar(text[i]) = LowerChar(e.c)
                 THEN MatchEnds(pat, k + 1, text, i + 1) ELSE {}
            [] e.t = "optsep" ->
                 (IF here /\ (text[i] = "-" \/ IsSpaceChar(text[i]))
                  THEN MatchEnds(pat, k + 1, text, i + 1) ELSE {})
                 \cup MatchEnds(pat, k + 1, text, i)
            [] e.t = "optlit" ->
                 (IF here /\ LowerChar(text[i]) = LowerChar(e.c)
                  THEN MatchEnds(pat, k + 1, text, i + 1) ELSE {})
                 \cup MatchEnds(pat, k + 1, text, i)

\* text is a sequence of characters
keyword_in_text(keyword, text) ==
    LET pat == KeywordPattern(keyword) IN
    \E i \in 1..(Len(text) + 1) :
        /\ WordBoundary(text, i)
        /\ \E e \in MatchEnds(pat, 1, text, i) : WordBoundary(text, e)

-----------------------------------------------------------------------------
(* filter_jobs_by_category *)

category_keywords ==
       ("Java Developer" :>
         [core |-> <<"java", "spring", "jvm", "kotlin">>,
          related |-> <<"backend", "software", "developer", "engineer">>])
    @@ ("Python Developer" :>
         [core |-> <<"python", "django", "flask">>,
          related |-> <<"backend", "software", "developer", "ai", "ml">>])
    @@ ("Web Designing" :>
         [core |-> <<"web", "frontend", "ui", "ux", "html", "css">>,
          related |-> <<"react", "angular", "vue", "javascript", "designer">>])
    @@ ("Full Stack Developer" :>
         [core |-> <<"full stack", "mern", "mean", "frontend", "backend">>,
          related |-> <<"react", "node", "express", "django", "api">>])
    @@ ("Android Developer" :>
         [core |-> <<"android", "kotlin", "java", "mobile">>,
          related |-> <<"flutter", "compose">>])
    @@ ("iOS Developer" :>
         [core |-> <<"ios", "swift", "swiftui", "xcode">>,
          related |-> <<"mobile", "app", "developer">>])
    @@ ("Data Science" :>
         [core |-> <<"data", "scientist", "analytics", "analysis">>,
          related |-> <<"machine learning", "ml", "ai", "insight", "python", "sql">>])
    @@ ("Machine Learning Engineer" :>
         [core |-> <<"machine learning", "ml", "ai", "neural">>,
          related |-> <<"pytorch", "tensorflow", "deep learning">>])
    @@ ("AI Engineer" :>
         [core |-> <<"ai", "artificial intelligence", "ml", "deep learning">>,
          related |-> <<"llm", "nlp", "vision", "transformer">>])
    @@ ("Data Engineer" :>
         [core |-> <<"data engineer", "pipeline", "etl", "big data">>,
          related |-> <<"airflow", "spark", "hadoop", "aws glue", "kafka">>])
    @@ ("Business Analyst" :>
         [core |-> <<"business analyst", "data", "requirements", "insights">>,
          related |-> <<"excel", "tableau", "power bi">>])
    @@ ("DevOps Engineer" :>
         [core |-> <<"devops", "ci/cd", "docker", "kubernetes">>,
          related |-> <<"aws", "azure", "gcp", "infrastructure", "terraform">>])
    @@ ("Cloud Engineer" :>
         [core |-> <<"cloud", "aws", "azure", "gcp", "infrastructure">>,
          related |-> <<"devops", "serverless", "kubernetes", "docker">>])
    @@ ("Site Reliability Engineer" :>
         [core |-> <<"sre", "reliability", "monitoring">>,
          related |-> <<"devops", "cloud", "automation">>])
    @@ ("Network Security Engineer" :>
         [core |-> <<"network", "security", "cyber">>,
          related |-> <<"infosec", "pentesting", "firewall", "ethical hacking">>])
    @@ ("Cybersecurity Analyst" :>
         [core |-> <<"cybersecurity", "security analyst", "threat", "incident">>,
          related |-> <<"vulnerability", "forensics", "malware", "siem">>])
    @@ ("Ethical Hacker" :>
         [core |-> <<"ethical hacker", "pentest", "penetration testing">>,
          related |-> <<"bug bounty", "offensive security", "owasp">>])
    @@ ("Blockchain Developer" :>
         [core |-> <<"blockchain", "web3", "solidity", "crypto">>,
          related |-> <<"ethereum", "smart contract", "defi">>])
    @@ ("Web3 Developer" :>
         [core |-> <<"web3", "blockchain", "solidity">>,
          related |-> <<"dapp", "nft", "crypto">>])
    @@ ("UI/UX Designer" :>
         [core |-> <<"ui", "ux", "figma", "design">>,
          related |-> <<"prototype", "wireframe", "adobe", "user research">>])
    @@ ("Database" :>
         [core |-> <<"database", "dba", "sql">>,
          related |-> <<"oracle", "mongodb", "mysql", "postgresql">>])
    @@ ("Testing" :>
         [core |-> <<"testing", "qa", "quality", "automation">>,
          related |-> <<"selenium", "software", "engineer">>])
    @@ ("SAP Developer" :>
         [core |-> <<"sap", "erp">>,
          related |-> <<"developer", "abap">>])
    @@ ("Operations Manager" :>
         [core |-> <<"operations", "manager">>,
          related |-> <<"project", "business", "process">>])

NoKeywords == [x \in {} |-> <<>>]

\* Mutant: an unknown category falls back to the first data category's entry.
keyword_set_DefaultEntry(predicted_category) ==
    Get(category_keywords, predicted_category, category_keywords["Data Science"])

\* keyword_set = category_keywords.get(predicted_category, {})
keyword_set(predicted_category) == Get(category_keywords, predicted_category, NoKeywords)
core_keywords(predicted_category) == Get(keyword_set(predicted_category), "core", <<>>)
related_keywords(predicted_category) == Get(keyword_set(predicted_category), "related", <<>>)

\* title = (job.get('title', '') or '').lower().replace('-', ' ')
JobTitle(job) == HyphenToSpace(Lower(Chars(OrElse(Get(job, "title", ""), ""))))
JobDescription(job) == HyphenToSpace(Lower(Chars(OrElse(Get(job, "description", ""), ""))))
\* company = (job.get('company', '') or '').lower()
JobCompany(job) == Lower(Chars(OrElse(Get(job, "company", ""), "")))
\* tags = ' '.join(job.get('tags', [])).lower()
JobTags(job) == Lower(JoinSpace(Get(job, "tags", <<>>)))
\* job_text = f"{title} {description} {company} {tags}"
JobText(job) ==
    JobTitle(job) \o <<" ">> \o JobDescription(job) \o <<" ">>
      \o JobCompany(job) \o <<" ">> \o JobTags(job)

\* Mutant: the weight is added once per occurrence of the keyword.
RECURSIVE AddMatchesPerOccurrence(_, _, _)
AddMatchesPerOccurrence(keywords, text, weight) ==
    IF keywords = <<>> THEN 0
    ELSE LET pat == KeywordPattern(Head(keywords))
             starts == {i \in 1..(Len(text) + 1) :
                          /\ WordBoundary(text, i)
                          /\ \E e \in MatchEnds(pat, 1, text, i) : WordBoundary(text, e)}
         IN  weight * Cardinality(starts)
             + AddMatchesPerOccurrence(Tail(keywords), text, weight)

\* for keyword in keywords: if keyword_in_text(keyword, text): score += weight
RECURSIVE AddMatches(_, _, _)
AddMatches(keywords, text, weight) ==
    IF keywords = <<>> THEN 0
    ELSE (IF keyword_in_text(Head(keywords), text) THEN weight ELSE 0)
         + AddMatches(Tail(keywords), text, weight)

TitleCoreWeight == 5
TitleRelatedWeight == 2
BodyCoreWeight == 3
BodyRelatedWeight == 1
StrongTitleScore == 3
MinTotalScore == 4

\* Mutant: a job needs a total_score above 4, not of at least 4.
ScoreJobStrictTotal(job, predicted_category) ==
    LET core    == core_keywords(predicted_category)
        related == related_keywords(predicted_category)
        title   == JobTitle(job)
        text    == JobText(job)
        ts      == AddMatches(core, title, TitleCoreWeight)
                   + AddMatches(related, title, TitleRelatedWeight)
        bs      == AddMatches(core, text, BodyCoreWeight)
                   + AddMatches(related, text, BodyRelatedWeight)
        total   == ts + bs
        has_core == \E i \in 1..Len(core) : keyword_in_text(core[i], text)
        has_strong_title == ts >= StrongTitleScore
    IN  [title_score |-> ts, body_score |-> bs, total_score |-> total,
         keep |-> has_core \/ has_strong_title \/ total > MinTotalScore]

\* One iteration of the loop over jobs: the scores and the keep decision.
ScoreJob(job, predicted_category) ==
    LET core    == core_keywords(predicted_category)
        related == related_keywords(predicted_category)
        title   == JobTitle(job)
        text    == JobText(job)
        ts      == AddMatches(core, title, TitleCoreWeight)
                   + AddMatches(related, title, TitleRelatedWeight)
        bs      == AddMatches(core, text, BodyCoreWeight)
                   + AddMatches(related, text, BodyRelatedWeight)
        total   == ts + bs
        has_core == \E i \in 1..Len(core) : keyword_in_text(core[i], text)
        has_strong_title == ts >= StrongTitleScore
    IN  [title_score |-> ts, body_score |-> bs, total_score |-> total,
         keep |-> has_core \/ has_strong_title \/ total >= MinTotalScore]

-----------------------------------------------------------------------------
(* The jobs the model draws its input lists from *)

\* no keyword of either category; no description and no tags key
Clerk == [title |-> "Clerk", company |-> "Database Ltd"]
SeniorDataScientist ==
    [title |-> "Senior Data Scientist", description |-> "", company |-> "Acme",
     tags |-> <<>>]
DataInDescription ==
    [title |-> "Intern", description |-> "work with data",
     company |-> "Backend Co", tags |-> <<>>]
MLIntern ==
    [title |-> "ML Intern", description |-> "ai", company |-> None, tags |-> <<>>]
FullStackInTags ==
    [title |-> "Engineer", description |-> "", company |-> "Full-Stack Labs",
     tags |-> <<"full-stack", "sql">>]
FullStackDeveloper ==
    [title |-> "Full-Stack Developer", description |-> "Full-stack: React, Node, APIs",
     company |-> "Acme", tags |-> <<>>]
BackendEngineers ==
    [title |-> "Backend Engineers",
     description |-> "Full stacks: data, data and datas analysis",
     company |-> "Acme", tags |-> <<"office">>]

JobPool ==
    {Clerk, SeniorDataScientist, DataInDescription, MLIntern, FullStackInTags,
     FullStackDeveloper, BackendEngineers}

KeywordCategories == {"Data Science", "Full Stack Developer"}
Categories == {None, "", "HR"} \cup KeywordCategories

\* ScoreJob tabulated over the pool, so that a job's scores are computed once.
ScoreTable == [c \in KeywordCategories |-> [j \in JobPool |-> ScoreJob(j, c)]]

JobScore(job, predicted_category) ==
    IF predicted_category \in DOMAIN ScoreTable
       /\ job \in DOMAIN ScoreTable[predicted_category]
    THEN ScoreTable[predicted_category][job]
    ELSE ScoreJob(job, predicted_category)

-----------------------------------------------------------------------------
(* filter_jobs_by_category: the loop, the sort and the fallback *)

\* The loop is reached: neither early return was taken.
LoopRuns(js, predicted_category) ==
    /\ TruthyStr(predicted_category)
    /\ js # <<>>
    /\ ~(core_keywords(predicted_category) = <<>>
         /\ related_keywords(predicted_category) = <<>>)

\* title_score, body_score, total_score and the keep decision of every job
JobScores(js, predicted_category) ==
    [i \in 1..Len(js) |-> JobScore(js[i], predicted_category)]

\* scored_jobs after the loop: one (position, total_score) per kept job,
\* in input order.
RECURSIVE ScoredFrom(_, _)
ScoredFrom(sc, i) ==
    IF i > Len(sc) THEN <<>>
    ELSE (IF sc[i].keep THEN << [pos |-> i, score |-> sc[i].total_score] >> ELSE <<>>)
         \o ScoredFrom(sc, i + 1)

ScoredJobs(js, predicted_category) == ScoredFrom(JobScores(js, predicted_category), 1)

\* Mutant: an element goes in front of the elements of equal key.
InsertByScoreBeforeTies(sorted, x) ==
    LET ahead == {k \in 1..Len(sorted) : sorted[k].score > x.score}
        n     == Cardinality(ahead)
    IN  SubSeq(sorted, 1, n) \o <<x>> \o SubSeq(sorted, n + 1, Len(sorted))

\* list.sort(key=lambda x: x[1], reverse=True): a stable sort, so an element
\* goes behind every element already placed whose key is not smaller.
InsertByScore(sorted, x) ==
    LET ahead == {k \in 1..Len(sorted) : sorted[k].score >= x.score}
        n     == Cardinality(ahead)
    IN  SubSeq(sorted, 1, n) \o <<x>> \o SubSeq(sorted, n + 1, Len(sorted))

\* Mutant: the sort is left out.
SortSkipped(scored) == scored

RECURSIVE SortByScoreDesc(_)
SortByScoreDesc(scored) ==
    IF scored = <<>> THEN <<>>
    ELSE InsertByScore(SortByScoreDesc(SubSeq(scored, 1, Len(scored) - 1)),
                       scored[Len(scored)])

\* filtered_jobs = [job for job, score in scored_jobs], as positions of jobs
FilteredJobs(js, predicted_category) ==
    LET sorted == SortByScoreDesc(ScoredJobs(js, predicted_category))
    IN  [k \in 1..Len(sorted) |-> sorted[k].pos]

MinKept == 3

\* Mutant: the 20 % share is left out of the floor.
TooFewKeptNoShare(k, n) == k < MinKept

\* Mutant: the fallback is taken only when nothing was kept.
TooFewKeptOnlyEmpty(k, n) == k < 1

\* len(filtered_jobs) < max(3, len(jobs) * 0.2).  0.2 is the double nearest to
\* 1/5; for every list length below 200 the double product n * 0.2 compares
\* with an integer k exactly as n / 5 does, so k < n * 0.2 is 5 * k < n.
TooFewKept(k, n) == k < MinKept \/ 5 * k < n

\* the list object jobs itself, as positions
SameList(js) == [i \in 1..Len(js) |-> i]

\* the list returned without the test of the floor
FilterJobsByCategoryNoFloor(js, predicted_category) ==
    IF ~LoopRuns(js, predicted_category) THEN SameList(js)
    ELSE FilteredJobs(js, predicted_category)

\* The list filter_jobs_by_category returns, as positions of jobs.
FilterJobsByCategory(js, predicted_category) ==
    IF ~LoopRuns(js, predicted_category) THEN SameList(js)
    ELSE LET filtered == FilteredJobs(js, predicted_category) IN
         IF TooFewKept(Len(filtered), Len(js)) THEN SameList(js)
         ELSE IF filtered # <<>> THEN filtered ELSE SameList(js)

\* Mutant: the result is written back into the caller's list.
JobsSortedInPlace(js, predicted_category) ==
    LET r == FilterJobsByCategory(js, predicted_category)
    IN  [k \in 1..Len(r) |-> js[r[k]]]

\* The contents of the caller's list after the call: the function reads
\* jobs (for job in jobs, job.get, len(jobs)) and writes only its own
\* scored_jobs and filtered_jobs.
JobsAfterCall(js, predicted_category) == js

-----------------------------------------------------------------------------
(* The ranker as a state machine: Init draws the arguments, CallFilter is   *)
(* one call of filter_jobs_by_category.                                     *)

MaxHead == 4
MaxFill == 15

Heads == UNION {[1..n -> JobPool] : n \in 0..MaxHead}
Fillers(n) == [i \in 1..n |-> Clerk]

InitMergeIdle ==
    /\ jooble_jobs = <<>>
    /\ scraped_jobs = <<>>
    /\ mpc = "idle"
    /\ unique = <<>>

\* a Future before submit: not running, _result is None
Unsubmitted == [state |-> "unsubmitted", result |-> [none |-> TRUE, raised |-> FALSE, items |-> <<>>]]

InitDualIdle ==
    /\ dpc = "idle"
    /\ future = [f \in {"f1", "f2"} |-> Unsubmitted]
    /\ completed = <<>>
    /\ dual_jooble_jobs = <<>>
    /\ internshala_jobs = <<>>

\* None where a dict is expected (an empty dict is falsy like None)
NoDict == <<>>

\* the locals of main before the upload is handled
RunStart ==
    /\ resume_data = NoDict
    /\ parsed = "no"
    /\ prediction = NoDict
    /\ resume_for_score = NoDict
    /\ breakdown = NoDict
    /\ filtering = FALSE
    /\ insert_call = NoDict

InitSessionIdle ==
    /\ session_state = NoDict
    /\ db_rows = <<>>
    /\ rpc = "off"
    /\ reruns = 0
    /\ points = NoDict
    /\ pdf_file = NoDict
    /\ role = "Auto-detect"
    /\ chat_input = "none"
    /\ RunStart

InitHealthIdle ==
    /\ gemini_env = NoDict
    /\ hpc = "idle"
    /\ health = NoDict

InitSkillsIdle ==
    /\ skills = <<>>
    /\ spc = "idle"
    /\ res = <<>>
    /\ out = <<>>

InitRankIdle ==
    /\ jobs = <<>>
    /\ category = None
    /\ pc = "idle"
    /\ scores = <<>>
    /\ filtered_jobs = <<>>
    /\ ret = <<>>

Init ==
    /\ \E head \in Heads, n \in {0, MaxFill} : jobs = head \o Fillers(n)
    /\ category \in Categories
    /\ pc = "call"
    /\ scores = <<>>
    /\ filtered_jobs = <<>>
    /\ ret = <<>>
    /\ InitMergeIdle
    /\ InitDualIdle
    /\ InitSkillsIdle
    /\ InitSessionIdle
    /\ InitHealthIdle

CallFilter ==
    /\ pc = "call"
    /\ scores' = IF LoopRuns(jobs, category) THEN JobScores(jobs, category) ELSE <<>>
    /\ filtered_jobs' =
         IF LoopRuns(jobs, category) THEN FilteredJobs(jobs, category) ELSE <<>>
    /\ ret' = FilterJobsByCategory(jobs, category)
    /\ jobs' = JobsAfterCall(jobs, category)
    /\ pc' = "done"
    /\ UNCHANGED <<sessionVars, healthVars, skillVars, category, fetchVars, dualVars>>

Next == CallFilter

Spec == Init /\ [][Next]_vars

-----------------------------------------------------------------------------
(* _fetch_all_jobs: the two fetches, the mapping into the common schema and *)
(* the deduplication by URL.                                                *)

\* What a fetch returned: a list of provider records, or None.
\* What a call of a job source ends with: a list, None, or an exception
Returned(items) == [none |-> FALSE, raised |-> FALSE, items |-> items]
ReturnedNone == [none |-> TRUE, raised |-> FALSE, items |-> <<>>]
Raised == [none |-> FALSE, raised |-> TRUE, items |-> <<>>]

\* fetched or []
OrEmptyList(r) == IF r.none \/ r.items = <<>> THEN <<>> ELSE r.items

\* location read with 'Remote' as the default of get() only
map_jooble_DefaultOnly(j) ==
    [title       |-> Get(j, "title", ""),
     company     |-> Get(j, "company", ""),
     location    |-> Get(j, "location", "Remote"),
     tags        |-> <<>>,
     description |-> Get(j, "snippet", ""),
     url         |-> Get(j, "link", "#"),
     source      |-> "jooble"]

map_jooble(j) ==
    [title       |-> Get(j, "title", ""),
     company     |-> Get(j, "company", ""),
     location    |-> OrElse(Get(j, "location", ""), "Remote"),
     tags        |-> <<>>,
     description |-> Get(j, "snippet", ""),
     url         |-> Get(j, "link", "#"),
     source      |-> "jooble"]

map_scraper(j) ==
    [title       |-> Get(j, "title", ""),
     company     |-> Get(j, "company", ""),
     location    |-> OrElse(Get(j, "location", ""), "Remote"),
     tags        |-> Get(j, "tags", <<>>),
     description |-> Get(j, "description", ""),
     url         |-> Get(j, "url", "#"),
     source      |-> Get(j, "source", "scraper")]

\* merged = [map_jooble(j) for j in jooble_jobs] + [map_scraper(j) for j in scraped_jobs]
Merged(jooble, scraped) ==
    [i \in 1..Len(jooble) |-> map_jooble(jooble[i])]
      \o [i \in 1..Len(scraped) |-> map_scraper(scraped[i])]

\* the loop without seen.add(u)
RECURSIVE DedupFromNothingSeen(_, _, _)
DedupFromNothingSeen(merged, i, seen) ==
    IF i > Len(merged) THEN <<>>
    ELSE LET u == merged[i].url IN
         IF ~TruthyStr(u) \/ u \in seen
         THEN DedupFromNothingSeen(merged, i + 1, seen)
         ELSE <<merged[i]>> \o DedupFromNothingSeen(merged, i + 1, seen)

\* The loop over merged from position i on, with the set seen so far.
RECURSIVE DedupFrom(_, _, _)
DedupFrom(merged, i, seen) ==
    IF i > Len(merged) THEN <<>>
    ELSE LET u == merged[i].url IN
         IF ~TruthyStr(u) \/ u \in seen
         THEN DedupFrom(merged, i + 1, seen)
         ELSE <<merged[i]>> \o DedupFrom(merged, i + 1, seen \cup {u})

FetchAllJobs(jooble_result, scraped_result) ==
    DedupFrom(Merged(OrEmptyList(jooble_result), OrEmptyList(scraped_result)), 1, {})

(* The provider records the model draws the fetch results from *)

JoobleRecords ==
    { [title |-> "Data Intern", company |-> "Acme", location |-> "Pune",
       snippet |-> "work with data", link |-> "https://jobs.example/1"],
      [title |-> "ML Intern", company |-> "Acme", location |-> "",
       snippet |-> "ai", link |-> "https://jobs.example/2"],
      [title |-> "No Link", company |-> "Acme", location |-> "Pune"],
      [title |-> "Empty Link", company |-> "Acme", snippet |-> "", link |-> ""],
      [title |-> "None Link", company |-> "Acme", location |-> None, link |-> None] }

ScraperRecords ==
    { [title |-> "Web Intern", company |-> "Beta", location |-> "Delhi",
       tags |-> <<"remote">>, description |-> "html", url |-> "https://intern.example/1",
       source |-> "internshala"],
      [title |-> "Data Intern", company |-> "Acme", tags |-> <<>>,
       description |-> "same posting", url |-> "https://jobs.example/1"],
      [title |-> "No Url", company |-> "Beta", location |-> "Delhi"],
      [title |-> "Empty Url", company |-> "Beta", location |-> "", url |-> "",
       source |-> "internshala"] }

MaxFetched == 2

FetchResults(records) ==
    {ReturnedNone} \cup
    {Returned(items) : items \in UNION {[1..n -> records] : n \in 0..MaxFetched}}

(* What the two job sources end with *)

MaxJoobleJobs == 10

Min(a, b) == IF a < b THEN a ELSE b

\* JobAPIService.fetch_jobs_from_jooble, given what the requests of its try
\* block end with: all_jobs, or an exception (caught, None is returned)
fetch_jobs_from_jooble(requests) ==
    IF requests.raised THEN ReturnedNone
    ELSE LET all_jobs == requests.items
             first == SubSeq(all_jobs, 1, Min(MaxJoobleJobs, Len(all_jobs)))
         IN  IF first = <<>> THEN ReturnedNone ELSE Returned(first)

JoobleResultsFrom(records) ==
    {fetch_jobs_from_jooble(r) : r \in (FetchResults(records) \ {ReturnedNone}) \cup {Raised}}

JoobleResults == JoobleResultsFrom(JoobleRecords)

\* a scraper of job_scrapers returns a list, returns nothing, or fails
ScraperResultsFrom(records) == FetchResults(records) \cup {Raised}

ScraperResults == ScraperResultsFrom(ScraperRecords)

InitMerge ==
    /\ jooble_jobs \in JoobleResults
    /\ scraped_jobs \in ScraperResults
    /\ mpc = "fetch"
    /\ unique = <<>>
    /\ InitRankIdle
    /\ InitDualIdle
    /\ InitSkillsIdle
    /\ InitSessionIdle
    /\ InitHealthIdle

FetchAll ==
    /\ mpc = "fetch"
    /\ IF jooble_jobs.raised \/ scraped_jobs.raised
       THEN mpc' = "raised" /\ unique' = unique
       ELSE mpc' = "done" /\ unique' = FetchAllJobs(jooble_jobs, scraped_jobs)
    /\ UNCHANGED <<sessionVars, healthVars, skillVars, rankVars, jooble_jobs, scraped_jobs, dualVars>>

NextMerge == FetchAll

SpecMerge == InitMerge /\ [][NextMerge]_vars

-----------------------------------------------------------------------------
(* display_job_recommendations_dual: the two fetches on a pool of two      *)
(* workers.  The caller submits f1 and f2, waits for f1.result(), then for *)
(* f2.result(), and leaves the with block, whose exit joins the workers.   *)

Futures == {"f1", "f2"}

\* what the callable submitted as f ends with
TaskOutcome(f) == IF f = "f1" THEN jooble_jobs ELSE scraped_jobs

\* Future.result() returns without waiting
FutureDoneOnceSubmitted(fs, f) == fs[f].state # "unsubmitted"

\* Future.result() blocks until the worker has finished the call
FutureDone(fs, f) == fs[f].state = "finished"

\* the listings the two calls of the display are drawn from: those with a URL
ListedJoobleRecords == {r \in JoobleRecords : "link" \in DOMAIN r /\ TruthyStr(r["link"])}
ListedScraperRecords == {r \in ScraperRecords : "url" \in DOMAIN r /\ TruthyStr(r["url"])}

InitDual ==
    /\ jooble_jobs \in JoobleResultsFrom(ListedJoobleRecords)
    /\ scraped_jobs \in ScraperResultsFrom(ListedScraperRecords)
    /\ mpc = "fetch"
    /\ unique = <<>>
    /\ dpc = "submit_f1"
    /\ future = [f \in Futures |-> Unsubmitted]
    /\ completed = <<>>
    /\ dual_jooble_jobs = <<>>
    /\ internshala_jobs = <<>>
    /\ InitRankIdle
    /\ InitSkillsIdle
    /\ InitSessionIdle
    /\ InitHealthIdle

\* f1 = ex.submit(...), f2 = ex.submit(...)
Submit(f) ==
    /\ dpc = "submit_" \o f
    /\ future' = [future EXCEPT ![f].state = "pending"]
    /\ dpc' = IF f = "f1" THEN "submit_f2" ELSE "result_f1"
    /\ UNCHANGED <<sessionVars, healthVars, skillVars, rankVars, fetchVars, completed, dual_jooble_jobs, internshala_jobs>>

\* a worker thread takes the work item off the queue
WorkerStart(f) ==
    /\ future[f].state = "pending"
    /\ future' = [future EXCEPT ![f].state = "running"]
    /\ UNCHANGED <<sessionVars, healthVars, skillVars, rankVars, fetchVars, dpc, completed, dual_jooble_jobs, internshala_jobs>>

\* the call ends: set_result or set_exception
WorkerFinish(f) ==
    /\ future[f].state = "running"
    /\ future' = [future EXCEPT ![f] = [state |-> "finished", result |-> TaskOutcome(f)]]
    /\ completed' = Append(completed, f)
    /\ UNCHANGED <<sessionVars, healthVars, skillVars, rankVars, fetchVars, dpc, dual_jooble_jobs, internshala_jobs>>

\* jooble_jobs = f1.result() or []
ResultF1 ==
    /\ dpc = "result_f1"
    /\ FutureDone(future, "f1")
    /\ IF future["f1"].result.raised
       THEN dpc' = "exit_raising" /\ UNCHANGED dual_jooble_jobs
       ELSE dpc' = "result_f2" /\ dual_jooble_jobs' = OrEmptyList(future["f1"].result)
    /\ UNCHANGED <<sessionVars, healthVars, skillVars, rankVars, fetchVars, future, completed, internshala_jobs>>

\* internshala_jobs = f2.result() or []
ResultF2 ==
    /\ dpc = "result_f2"
    /\ FutureDone(future, "f2")
    /\ IF future["f2"].result.raised
       THEN dpc' = "exit_raising" /\ UNCHANGED internshala_jobs
       ELSE dpc' = "exit" /\ internshala_jobs' = OrEmptyList(future["f2"].result)
    /\ UNCHANGED <<sessionVars, healthVars, skillVars, rankVars, fetchVars, future, completed, dual_jooble_jobs>>

\* the end of the with block: shutdown(wait=True) joins both workers, then
\* the caller goes on to the category filter or the exception goes on
ExitPool ==
    /\ dpc \in {"exit", "exit_raising"}
    /\ \A f \in Futures : future[f].state = "finished"
    /\ dpc' = IF dpc = "exit" THEN "filter" ELSE "raised"
    /\ UNCHANGED <<sessionVars, healthVars, skillVars, rankVars, fetchVars, future, completed, dual_jooble_jobs, internshala_jobs>>

NextDual ==
    \/ \E f \in Futures : Submit(f)
    \/ \E f \in Futures : WorkerStart(f)
    \/ \E f \in Futures : WorkerFinish(f)
    \/ ResultF1
    \/ ResultF2
    \/ ExitPool
    \/ FetchAll

SpecDual == InitDual /\ [][NextDual]_vars

-----------------------------------------------------------------------------
(* categorize_skills: the normalizer, the membership tables, the chain of    *)
(* tests and the de-duplication of each category.                            *)

\* the keys in the order of the tests of the loop
CategoryNames_TestOrder ==
    <<"Languages", "Frontend", "Backend", "Libraries / Data-ML", "Databases",
      "Cloud / DevOps", "Mobile", "Tools / Platforms", "Embedded / Hardware",
      "Soft Skills", "Concepts", "Other">>

\* the keys of categories, in the order of the dict literal
CategoryNames ==
    <<"Languages", "Frontend", "Backend", "Libraries / Data-ML", "Databases",
      "Cloud / DevOps", "Mobile", "Tools / Platforms", "Embedded / Hardware",
      "Concepts", "Soft Skills", "Other">>

\* Normalization aliases
aliases ==
    ("reactjs" :> "react") @@
    ("nextjs" :> "next.js") @@
    ("nodejs" :> "node.js") @@
    ("postgres" :> "postgresql") @@
    ("ci cd" :> "ci/cd") @@
    ("ci-cd" :> "ci/cd") @@
    ("bs4" :> "beautifulsoup") @@
    ("huggingface" :> "hugging face") @@
    ("redux toolkit" :> "redux") @@
    ("tailwindcss" :> "tailwind") @@
    ("postgre" :> "postgresql") @@
    ("google colaboratory" :> "google colab") @@
    ("google-colab" :> "google colab") @@
    ("visual studio code" :> "vs code")

langs ==
    {"python", "java", "javascript", "typescript", "go", "rust", "c",
     "c++", "c#", "kotlin", "swift", "ruby", "php", "r", "scala", "matlab"}

frontend ==
    {"html", "html5", "css", "css3", "react", "next.js", "angular", "vue",
     "svelte", "redux", "tailwind", "bootstrap", "sass", "less", "vite",
     "webpack", "babel"}

backend ==
    {"node.js", "express", "django", "flask", "fastapi", "spring",
     "spring boot", "laravel", "rails", "graphql", "grpc", "rest",
     "openapi", "swagger"}

libs ==
    {"numpy", "pandas", "scikit-learn", "sklearn", "matplotlib", "seaborn",
     "plotly", "tensorflow", "keras", "pytorch", "opencv", "xgboost",
     "lightgbm", "transformers", "hugging face", "langchain", "yolo",
     "pyspark", "spark", "nltk", "spacy", "streamlit"}

dbs ==
    {"sql", "mysql", "postgresql", "sqlite", "mongodb", "redis",
     "elasticsearch"}

devops ==
    {"aws", "gcp", "azure", "docker", "kubernetes", "terraform", "git",
     "github", "gitlab", "github actions", "gitlab ci", "ci/cd", "linux",
     "bash", "shell", "nginx"}

mobile ==
    {"android", "ios", "react native", "swiftui", "flutter", "firebase",
     "supabase"}

\* tools with a member of dbs
tools_WithSql ==
    {"postman", "selenium", "beautifulsoup", "power bi", "tableau",
     "excel", "airflow", "hive", "hadoop", "looker", "superset", "colab",
     "google colab", "vscode", "vs code", "powerpoint", "ms powerpoint",
     "api integration", "jupyter", "sql"}

tools ==
    {"postman", "selenium", "beautifulsoup", "power bi", "tableau",
     "excel", "airflow", "hive", "hadoop", "looker", "superset", "colab",
     "google colab", "vscode", "vs code", "powerpoint", "ms powerpoint",
     "api integration", "jupyter"}

embedded ==
    {"verilog", "vhdl", "systemverilog", "fpga", "pcb design",
     "circuit design", "embedded systems", "arm", "arm cortex-m", "stm32",
     "esp32", "raspberry pi", "msp430", "pic", "arduino"}

soft ==
    {"communication", "leadership", "teamwork", "collaboration",
     "problem solving", "time management", "adaptability",
     "critical thinking"}

concepts ==
    {"data analysis", "operating systems", "os", "networking fundamentals"}

\* the text made of the characters cs
RECURSIVE Text(_)
Text(cs) == IF cs = <<>> THEN "" ELSE Head(cs) \o Text(Tail(cs))

\* str.strip()
RECURSIVE StripLeft(_)
StripLeft(cs) ==
    IF cs # <<>> /\ IsSpaceChar(Head(cs)) THEN StripLeft(Tail(cs)) ELSE cs

RECURSIVE StripRight(_)
StripRight(cs) ==
    IF cs # <<>> /\ IsSpaceChar(cs[Len(cs)])
    THEN StripRight(SubSeq(cs, 1, Len(cs) - 1))
    ELSE cs

Strip(cs) == StripRight(StripLeft(cs))

OccursAt(cs, i, old) ==
    i + Len(old) - 1 <= Len(cs) /\ SubSeq(cs, i, i + Len(old) - 1) = old

\* str.replace(old, new) from position i on: the leftmost occurrences, not
\* overlapping
RECURSIVE ReplaceFrom(_, _, _, _)
ReplaceFrom(cs, i, old, new) ==
    IF i > Len(cs) THEN <<>>
    ELSE IF OccursAt(cs, i, old)
         THEN new \o ReplaceFrom(cs, i + Len(old), old, new)
         ELSE <<cs[i]>> \o ReplaceFrom(cs, i + 1, old, new)

Replace(s, old, new) == Text(ReplaceFrom(Chars(s), 1, Chars(old), Chars(new)))

\* norm returns None for a blank skill
NoSkill == [none |-> TRUE, low |-> "", orig |-> ""]

\* norm without the alias lookup
norm_NoAliases(s) ==
    LET s0 == Text(Strip(Chars(OrElse(s, "")))) IN
    IF s0 = "" THEN NoSkill
    ELSE LET low0 == Text(Lower(Chars(s0)))
             low ==
                 Replace(Replace(Replace(low0, "react.js", "react"),
                                 "next js", "next.js"), "node js", "node.js")
         IN  [none |-> FALSE, low |-> low, orig |-> s0]

\* norm(s): None, or (low, s0)
norm(s) ==
    LET s0 == Text(Strip(Chars(OrElse(s, "")))) IN
    IF s0 = "" THEN NoSkill
    ELSE LET low0 == Text(Lower(Chars(s0)))
             low1 == Get(aliases, low0, low0)
             low ==
                 Replace(Replace(Replace(low1, "react.js", "react"),
                                 "next js", "next.js"), "node js", "node.js")
         IN  [none |-> FALSE, low |-> low, orig |-> s0]

-----------------------------------------------------------------------------
\* the tests of the loop with 'Soft Skills' and 'Concepts' exchanged
TestOrder_SoftAsConcepts ==
    <<[table |-> langs, key |-> "Languages"],
      [table |-> frontend, key |-> "Frontend"],
      [table |-> backend, key |-> "Backend"],
      [table |-> libs, key |-> "Libraries / Data-ML"],
      [table |-> dbs, key |-> "Databases"],
      [table |-> devops, key |-> "Cloud / DevOps"],
      [table |-> mobile, key |-> "Mobile"],
      [table |-> tools, key |-> "Tools / Platforms"],
      [table |-> embedded, key |-> "Embedded / Hardware"],
      [table |-> soft, key |-> "Concepts"],
      [table |-> concepts, key |-> "Soft Skills"]>>

\* the if / elif tests of the loop, in their order: the table tested and the
\* key of categories appended to
TestOrder ==
    <<[table |-> langs, key |-> "Languages"],
      [table |-> frontend, key |-> "Frontend"],
      [table |-> backend, key |-> "Backend"],
      [table |-> libs, key |-> "Libraries / Data-ML"],
      [table |-> dbs, key |-> "Databases"],
      [table |-> devops, key |-> "Cloud / DevOps"],
      [table |-> mobile, key |-> "Mobile"],
      [table |-> tools, key |-> "Tools / Platforms"],
      [table |-> embedded, key |-> "Embedded / Hardware"],
      [table |-> soft, key |-> "Soft Skills"],
      [table |-> concepts, key |-> "Concepts"]>>

\* the key of the first test from i on that low passes, 'Other' when none
RECURSIVE FirstMatch(_, _, _)
FirstMatch(low, tests, i) ==
    IF i > Len(tests) THEN "Other"
    ELSE IF low \in tests[i].table THEN tests[i].key
    ELSE FirstMatch(low, tests, i + 1)

CategoryOf(low) == FirstMatch(low, TestOrder, 1)

\* res = norm(s) for each s of skills
NormResults(sk) == [i \in 1..Len(sk) |-> norm(sk[i])]

\* categories[k] after the loop, from position i of the skills on
RECURSIVE AppendedFrom(_, _, _)
AppendedFrom(rs, i, k) ==
    IF i > Len(rs) THEN <<>>
    ELSE (IF ~rs[i].none /\ CategoryOf(rs[i].low) = k THEN <<rs[i].orig>> ELSE <<>>)
           \o AppendedFrom(rs, i + 1, k)

\* de-duplicate while preserving order
RECURSIVE OrderedFrom(_, _, _)
OrderedFrom(v, i, seen) ==
    IF i > Len(v) THEN <<>>
    ELSE IF v[i] \in seen THEN OrderedFrom(v, i + 1, seen)
    ELSE <<v[i]>> \o OrderedFrom(v, i + 1, seen \cup {v[i]})

\* the loop over categories.items() without 'if not v: continue'
RECURSIVE OutFromKeepingEmpty(_, _)
OutFromKeepingEmpty(rs, n) ==
    IF n > Len(CategoryNames) THEN <<>>
    ELSE LET k == CategoryNames[n]
             v == AppendedFrom(rs, 1, k)
         IN  <<[k |-> k, v |-> OrderedFrom(v, 1, {})]>> \o OutFromKeepingEmpty(rs, n + 1)

\* the loop over categories.items() from the n-th key on: the items of out
RECURSIVE OutFrom(_, _)
OutFrom(rs, n) ==
    IF n > Len(CategoryNames) THEN <<>>
    ELSE LET k == CategoryNames[n]
             v == AppendedFrom(rs, 1, k)
         IN  (IF v = <<>> THEN <<>> ELSE <<[k |-> k, v |-> OrderedFrom(v, 1, {})]>>)
               \o OutFrom(rs, n + 1)

categorize_skills(sk) == OutFrom(NormResults(sk), 1)

(* The skills the model draws its input lists from *)

\* every member of a membership table
Known ==
    langs \cup frontend \cup backend \cup libs \cup dbs \cup devops \cup mobile
      \cup tools \cup embedded \cup soft \cup concepts

SkillPool ==
    {"Python", "python", " Python ", "ReactJS", "react", "Node JS", "SQL", "zzqux",
     "  ", None, "react.jsjs"}

MaxSkills == 3

SkillLists ==
    {<<s>> : s \in Known}
      \cup UNION {[1..n -> SkillPool] : n \in 0..MaxSkills}
      \cup {<<"ReactJS", "Node JS", "python", "SQL">>,
            <<"teamwork", "os">>, <<"os", "teamwork", "zzqux", "Git">>}

InitSkills ==
    /\ skills \in SkillLists
    /\ spc = "call"
    /\ res = <<>>
    /\ out = <<>>
    /\ InitRankIdle
    /\ InitMergeIdle
    /\ InitDualIdle
    /\ InitSessionIdle
    /\ InitHealthIdle

Categorize ==
    /\ spc = "call"
    /\ res' = NormResults(skills)
    /\ out' = categorize_skills(skills)
    /\ spc' = "done"
    /\ UNCHANGED <<sessionVars, healthVars, skills, rankVars, fetchVars, dualVars>>

NextSkills == Categorize

SpecSkills == InitSkills /\ [][NextSkills]_vars

-----------------------------------------------------------------------------
(* chat_service.check_gemini_health *)

PlaceholderKey == "your_gemini_api_key_here"

DefaultGeminiModel == "gemini-2.5-flash"

\* what a call ends with: an exception, or the value returned
Raises == [raised |-> TRUE, value |-> NoDict]
Returns(v) == [raised |-> FALSE, value |-> v]

\* _get_gemini_config(): (api_key, model), or the ValueError of a missing key
get_gemini_config(env) ==
    LET api_key == Text(Strip(Chars(OrElse(env.env_key, OrElse(env.secrets_key, "")))))
        model == Text(Strip(Chars(OrElse(env.env_model,
                                         OrElse(env.secrets_model, DefaultGeminiModel)))))
    IN  IF api_key = "" \/ api_key = PlaceholderKey
        THEN Raises
        ELSE Returns([api_key |-> api_key, model |-> model])

\* the except branch of check_gemini_health: the error dict, whose 'model'
\* is read by a second call of _get_gemini_config()
HealthError(env, message) ==
    LET again == get_gemini_config(env) IN
    IF again.raised THEN Raises
    ELSE Returns([status |-> "error", error |-> message, model |-> again.value.model])

check_gemini_health(env) ==
    LET config == get_gemini_config(env) IN
    IF config.raised THEN HealthError(env, "Gemini API key not found")
    ELSE IF config.value.api_key = "" \/ config.value.api_key = PlaceholderKey
         THEN Returns([status |-> "error", error |-> "Gemini API key not configured",
                       model |-> config.value.model])
    ELSE IF env.api # "ok" THEN HealthError(env, env.api)
    ELSE Returns([status |-> "healthy", model |-> config.value.model,
                  api_key_configured |-> TRUE, test_response |-> "Connection successful"])

\* the configurations the model draws from: the key and the model in the
\* environment and in the Streamlit secrets, and whether the API answers
GeminiEnvs ==
    [env_key : {None, "", " ", PlaceholderKey, "AIza-env"},
     secrets_key : {None, "", PlaceholderKey, "AIza-secret"},
     env_model : {None, " gemini-pro "},
     secrets_model : {None, "gemini-1.5-flash"},
     api : {"ok", "unreachable"}]

InitHealth ==
    /\ gemini_env \in GeminiEnvs
    /\ hpc = "call"
    /\ health = NoDict
    /\ InitRankIdle
    /\ InitMergeIdle
    /\ InitDualIdle
    /\ InitSkillsIdle
    /\ InitSessionIdle

CheckHealth ==
    /\ hpc = "call"
    /\ health' = check_gemini_health(gemini_env)
    /\ hpc' = "done"
    /\ UNCHANGED <<gemini_env, sessionVars, skillVars, rankVars, fetchVars, dualVars>>

NextHealth == CheckHealth

SpecHealth == InitHealth /\ [][NextHealth]_vars

-----------------------------------------------------------------------------
(* main: the upload and the cached resume, the scorer call, the database    *)
(* save and the chat, rerun after rerun of one session.                     *)

\* d[key] = value on a dict
Put(d, key, value) == (key :> value) @@ d

\* truthiness of a dict or None
Truthy(d) == DOMAIN d # {}

\* save_path = os.path.join(Config.UPLOAD_DIR, pdf_file.name)
SavePath(file) == "uploads/" \o file.name

\* current_resume_id = f"{save_path}:{os.path.getsize(save_path)}"
ResumeId(file) == SavePath(file) \o ":" \o ToString(file.size)

\* a parsed resume; parse_resume returns such a record or fails
Alice ==
    [name |-> "Alice", email |-> "alice@x.io", raw_text |-> "python sql pandas",
     skills |-> <<"Python", "SQL">>]

NoEmailNoText == [name |-> "Bob", email |-> None, raw_text |-> "", skills |-> <<>>]

\* the files the user can select: name, size, and what parse_resume ends
\* with for the file
Files ==
    { [name |-> "a.pdf", size |-> 10, parses |-> Returns(Alice)],
      [name |-> "a.pdf", size |-> 20, parses |-> Returns(NoEmailNoText)],
      [name |-> "b.pdf", size |-> 10, parses |-> Returns(Alice)],
      [name |-> "c.pdf", size |-> 30, parses |-> Raises] }

\* ResumeParser.parse_resume(file)
parse_resume(file) == file.parses

\* what the classifier does in a rerun: load_resume_classifier() gives a
\* model or None, and model.predict / predict_proba give a label or raise
Classifiers ==
    { [loaded |-> FALSE, predicts |-> Raises],
      [loaded |-> TRUE, predicts |-> Raises],
      [loaded |-> TRUE,
       predicts |-> Returns([category |-> "Data Science",
                             top_3 |-> <<"Data Science", "Python Developer", "HR">>])] }

NoCategory == [category |-> None, top_3 |-> <<>>]

\* predict_resume_category without its try / except
predict_resume_category_Unguarded(resume_text, classifier) ==
    IF ~classifier.loaded THEN Returns(NoCategory)
    ELSE classifier.predicts

\* predict_resume_category(resume_text): (predicted_category, top_3)
predict_resume_category(resume_text, classifier) ==
    IF ~classifier.loaded THEN Returns(NoCategory)
    ELSE IF classifier.predicts.raised THEN Returns(NoCategory)
    ELSE Returns(classifier.predicts.value)

\* lines 2649-2661: the prediction made for a freshly parsed record, None
\* when the record has no raw_text
PredictionFor(data, classifier) ==
    IF TruthyStr(Get(data, "raw_text", ""))
    THEN predict_resume_category(data["raw_text"], classifier)
    ELSE NoDict

\* the record with predicted_category and top_3_categories when a category
\* was predicted
WithPrediction(data, pred) ==
    IF pred # NoDict /\ ~pred.raised /\ TruthyStr(pred.value.category)
    THEN Put(Put(data, "predicted_category", pred.value.category),
             "top_3_categories", pred.value.top_3)
    ELSE data

(* AnalyticsUtils.calculate_resume_score_breakdown *)

\* the component maxima of the extended scheme with a content_quality of 60
ExtendedMaxima_Sixty ==
    [content_quality |-> 60, keyword_relevance |-> 20, formatting |-> 15,
     experience_impact |-> 10, readability |-> 5]

\* the component maxima of the extended scheme
ExtendedMaxima ==
    [content_quality |-> 50, keyword_relevance |-> 20, formatting |-> 15,
     experience_impact |-> 10, readability |-> 5]

\* the component maxima of the legacy scheme
LegacyMaxima == [basic_info |-> 15, skills |-> 30]

\* the sub-scores the sub-scorers can give: nothing, half or all of the
\* maximum of each component
SubScores(maxima) == [c \in DOMAIN maxima |-> {0, maxima[c] \div 2, maxima[c]}]

PointsOf(maxima) ==
    {p \in [DOMAIN maxima -> UNION {SubScores(maxima)[c] : c \in DOMAIN maxima}] :
        \A c \in DOMAIN maxima : p[c] \in SubScores(maxima)[c]}

ExtendedPoints == PointsOf(ExtendedMaxima)
LegacyPoints == PointsOf(LegacyMaxima)

RECURSIVE SumOf(_)
SumOf(f) ==
    IF DOMAIN f = {} THEN 0
    ELSE LET c == CHOOSE x \in DOMAIN f : TRUE
         IN  f[c] + SumOf([x \in DOMAIN f \ {c} |-> f[x]])

MaxTotal == 100

Clamp(x) == IF x < 0 THEN 0 ELSE IF x > MaxTotal THEN MaxTotal ELSE x

\* the breakdown: the total, clamped to 0..100, and the sub-score of each
\* component
calculate_resume_score_breakdown(resume, sub_scores) ==
    [total |-> Clamp(SumOf(sub_scores)), components |-> sub_scores]

(* The reruns of main *)

MaxReruns == 3
MaxMessages == 4

NoFile == NoDict

Roles == {"Auto-detect", "Data Analyst"}

ChatMessages(session) == Get(session, "chat_messages", <<>>)

\* the widgets the script reads in a rerun take their values and the script
\* starts from the top
StartRerun ==
    /\ rpc \in {"idle", "failed"}
    /\ reruns < MaxReruns
    /\ reruns' = reruns + 1
    /\ pdf_file' \in Files \cup {NoFile}
    /\ role' \in Roles
    /\ chat_input' \in
         IF Len(ChatMessages(session_state)) + 2 <= MaxMessages
         THEN {"none", "send", "clear"}
         ELSE {"none", "clear"}
    /\ resume_data' = NoDict
    /\ parsed' = "no"
    /\ prediction' = NoDict
    /\ resume_for_score' = NoDict
    /\ breakdown' = NoDict
    /\ filtering' = FALSE
    /\ insert_call' = NoDict
    /\ rpc' = "upload"
    /\ UNCHANGED <<session_state, db_rows, points, healthVars, skillVars, rankVars,
                   fetchVars, dualVars>>

\* lines 2663-2666: the session after a new file was parsed
SessionWithoutChatReset(session, file, data) ==
    Put(Put(Put(session, "resume_id", ResumeId(file)),
            "resume_path", SavePath(file)), "resume_data", data)

SessionAfterParse(session, file, data) ==
    Put(Put(Put(Put(session, "resume_id", ResumeId(file)),
                "resume_path", SavePath(file)), "resume_data", data),
        "chat_messages", <<>>)

\* line 2642 with the test of the identity left out
IsNewFileAlways(session, file) == TRUE

\* line 2642: st.session_state.get('resume_id') != current_resume_id
IsNewFile(session, file) == Get(session, "resume_id", None) # ResumeId(file)

\* the session when parse_resume raised, with the identity already stored
SessionAfterFailedParse_IdStored(session, file) ==
    Put(Put(session, "resume_upload_attempted", TRUE), "resume_id", ResumeId(file))

\* the session when parse_resume raised: line 2626 has run, lines 2663-2666
\* have not
SessionAfterFailedParse(session, file) == Put(session, "resume_upload_attempted", TRUE)

\* what parse_resume can end with for the file saved at path (lines 2675-2679)
SavedFileParses(path) == {parse_resume(f) : f \in {g \in Files : SavePath(g) = path}}

\* where the rerun goes on after the upload was handled (line 2684)
AfterUpload(data) == IF Truthy(data) THEN "score" ELSE "chat"

\* lines 2625-2682: the uploaded file is saved and, when its identity is not
\* the cached one, parsed and classified; an exception of parse_resume ends
\* the rerun
HandleUpload ==
    /\ rpc = "upload"
    /\ \E classifier \in Classifiers :
         IF pdf_file # NoFile
         THEN IF IsNewFile(session_state, pdf_file)
              THEN LET outcome == parse_resume(pdf_file)
                       pred == PredictionFor(outcome.value, classifier)
                       data == WithPrediction(outcome.value, pred)
                   IN  IF outcome.raised
                       THEN /\ session_state' = SessionAfterFailedParse(session_state, pdf_file)
                            /\ resume_data' = NoDict
                            /\ prediction' = NoDict
                            /\ parsed' = "upload"
                            /\ rpc' = "failed"
                       ELSE /\ session_state' =
                                 SessionAfterParse(
                                     Put(session_state, "resume_upload_attempted", TRUE),
                                     pdf_file, data)
                            /\ resume_data' = data
                            /\ prediction' = [classifier |-> classifier, result |-> pred]
                            /\ parsed' = "upload"
                            /\ rpc' = AfterUpload(data)
              ELSE /\ session_state' = Put(session_state, "resume_upload_attempted", TRUE)
                   /\ resume_data' = Get(session_state, "resume_data", NoDict)
                   /\ prediction' = NoDict
                   /\ parsed' = "no"
                   /\ rpc' = AfterUpload(resume_data')
         ELSE LET cached == Get(session_state, "resume_data", NoDict)
                  resume_path == Get(session_state, "resume_path", None)
              IN  IF ~Truthy(cached) /\ TruthyStr(resume_path)
                  THEN \E outcome \in SavedFileParses(resume_path) :
                         /\ resume_data' = IF outcome.raised THEN cached ELSE outcome.value
                         /\ session_state' =
                              IF outcome.raised THEN session_state
                              ELSE Put(session_state, "resume_data", outcome.value)
                         /\ prediction' = NoDict
                         /\ parsed' = "saved_path"
                         /\ rpc' = AfterUpload(resume_data')
                  ELSE /\ resume_data' = cached
                       /\ session_state' = session_state
                       /\ prediction' = NoDict
                       /\ parsed' = "no"
                       /\ rpc' = AfterUpload(cached)
    /\ UNCHANGED <<db_rows, reruns, points, pdf_file, role, chat_input, resume_for_score,
                   breakdown, filtering, insert_call, healthVars, skillVars, rankVars,
                   fetchVars, dualVars>>

\* line 2716 without the copy: _resume_for_score = resume_data
ResumeForScore(data, selected) ==
    IF selected # "Auto-detect" THEN Put(data, "target_role", selected) ELSE data

\* the cached record after lines 2716-2718 when the scorer's record is the
\* cached record itself
CachedAfterScore_Aliased(data, selected) == ResumeForScore(data, selected)

\* the cached record after lines 2716-2718: dict(resume_data) is a new dict,
\* the assignment of target_role changes the copy only
CachedAfterScore(data, selected) == data

\* lines 2709-2724: the record for the scorer and the breakdown
ScoreResume ==
    /\ rpc = "score"
    /\ resume_for_score' = ResumeForScore(resume_data, role)
    /\ breakdown' = calculate_resume_score_breakdown(resume_for_score', points)
    /\ resume_data' = CachedAfterScore(resume_data, role)
    /\ session_state' =
         IF "resume_data" \in DOMAIN session_state
         THEN Put(session_state, "resume_data",
                  CachedAfterScore(session_state["resume_data"], role))
         ELSE session_state
    /\ rpc' = "jobs"
    /\ UNCHANGED <<db_rows, reruns, points, pdf_file, role, chat_input, parsed, prediction,
                   filtering, insert_call, healthVars, skillVars, rankVars, fetchVars,
                   dualVars>>

\* lines 3700, 3789-3795 and 1269-1273: the chat is deferred to the bottom of
\* the page, and the jobs are filtered when the record has skills and a
\* predicted category
ShowJobs ==
    /\ rpc = "jobs"
    /\ session_state' = Put(session_state, "render_chat_at_bottom", TRUE)
    /\ filtering' = (/\ Get(resume_data, "skills", <<>>) # <<>>
                     /\ TruthyStr(Get(resume_data, "predicted_category", None)))
    /\ rpc' = "save"
    /\ UNCHANGED <<db_rows, reruns, points, pdf_file, role, chat_input,
                   resume_data, parsed, prediction, resume_for_score, breakdown,
                   insert_call, healthVars, skillVars, rankVars, fetchVars, dualVars>>

\* what the database can do with an insert
InsertOutcomes == {"no_connection", "ok", "error"}

\* DatabaseManager.insert_user_data: the rows afterwards and the value returned
insert_user_data(rows, row, outcome) ==
    IF outcome = "no_connection" THEN [rows |-> rows, success |-> FALSE]
    ELSE IF outcome = "ok" THEN [rows |-> Append(rows, row), success |-> TRUE]
    ELSE [rows |-> rows, success |-> FALSE]

\* line 3830: f"db_saved_{hash(resume_id + user_email)}"
ResumeDbKey(resume_id, user_email) == "db_saved_" \o resume_id \o user_email

\* lines 3847-3849 with the flag never stored
SavedFlagAfter_Never(session, key, success) == session

\* lines 3847-3849: the flag is stored when the insert succeeded
SavedFlagAfter(session, key, success) ==
    IF success THEN Put(session, key, TRUE) ELSE session

\* lines 3824-3849: the record is saved once per resume identity and email
SaveToDatabase ==
    /\ rpc = "save"
    /\ \E outcome \in InsertOutcomes :
         LET name == Get(resume_data, "name", None)
             user_email == Get(resume_data, "email", None)
             resume_id == Get(session_state, "resume_id", "")
             key == ResumeDbKey(resume_id, user_email)
             done == insert_user_data(db_rows,
                                      [resume_id |-> resume_id, email |-> user_email],
                                      outcome)
         IN  IF /\ TruthyStr(name) /\ TruthyStr(user_email)
                /\ resume_id # "" /\ ~Get(session_state, key, FALSE)
             THEN /\ db_rows' = done.rows
                  /\ insert_call' = [resume_id |-> resume_id, email |-> user_email,
                                     success |-> done.success,
                                     saved_before |-> Get(session_state, key, FALSE)]
                  /\ session_state' = SavedFlagAfter(session_state, key, done.success)
             ELSE /\ outcome = "ok"
                  /\ UNCHANGED <<db_rows, insert_call, session_state>>
    /\ rpc' = "chat"
    /\ UNCHANGED <<reruns, points, pdf_file, role, chat_input, resume_data, parsed,
                   prediction, resume_for_score, breakdown, filtering, healthVars,
                   skillVars, rankVars, fetchVars, dualVars>>

\* what chat_gemini can end with
Replies == {"reply", "empty", "raises"}

\* a message of the history, with the resume identity under which it was
\* written
Message(who, session) == [role |-> who, under |-> Get(session, "resume_id", None)]

\* lines 4094-4147: the history after a question was sent
ChatAfterSend(messages, session, reply) ==
    IF reply = "empty" THEN Append(messages, Message("user", session))
    ELSE Append(Append(messages, Message("user", session)), Message("assistant", session))

\* lines 3855, 4034-4037, 4054-4055 and 4094-4147: the chat at the bottom of
\* the page, rendered once a resume was shown in the session
Chat ==
    /\ rpc = "chat"
    /\ \E reply \in Replies :
         /\ (chat_input = "send" /\ Get(session_state, "render_chat_at_bottom", FALSE))
              \/ reply = "reply"
         /\ session_state' =
              IF ~Get(session_state, "render_chat_at_bottom", FALSE) THEN session_state
              ELSE Put(session_state, "chat_messages",
                       IF chat_input = "clear" THEN <<>>
                       ELSE IF chat_input = "send"
                            THEN ChatAfterSend(ChatMessages(session_state),
                                               session_state, reply)
                            ELSE ChatMessages(session_state))
    /\ rpc' = "idle"
    /\ UNCHANGED <<db_rows, reruns, points, runVars, healthVars, skillVars, rankVars,
                   fetchVars, dualVars>>

\* the sub-scores the scorer gives in the session
SessionPoints ==
    [content_quality |-> 25, keyword_relevance |-> 20, formatting |-> 15,
     experience_impact |-> 5, readability |-> 5]

InitSession ==
    /\ session_state = NoDict
    /\ db_rows = <<>>
    /\ rpc = "idle"
    /\ reruns = 0
    /\ points = SessionPoints
    /\ pdf_file = NoFile
    /\ role = "Auto-detect"
    /\ chat_input = "none"
    /\ RunStart
    /\ InitHealthIdle
    /\ InitSkillsIdle
    /\ InitRankIdle
    /\ InitMergeIdle
    /\ InitDualIdle

NextSession ==
    \/ StartRerun
    \/ HandleUpload
    \/ ScoreResume
    \/ ShowJobs
    \/ SaveToDatabase
    \/ Chat

SpecSession == InitSession /\ [][NextSession]_vars

\* the records the scorer is called with
ScoredRecords == {Alice, NoEmailNoText, WithPrediction(Alice, Returns([category |-> "Data Science", top_3 |-> <<>>]))}

InitScore ==
    /\ session_state \in {[resume_data |-> r] : r \in ScoredRecords}
    /\ resume_data = session_state["resume_data"]
    /\ db_rows = <<>>
    /\ rpc = "score"
    /\ reruns = 1
    /\ points \in ExtendedPoints \cup LegacyPoints
    /\ pdf_file = NoFile
    /\ role \in Roles
    /\ chat_input = "none"
    /\ parsed = "no"
    /\ prediction = NoDict
    /\ resume_for_score = NoDict
    /\ breakdown = NoDict
    /\ filtering = FALSE
    /\ insert_call = NoDict
    /\ InitHealthIdle
    /\ InitSkillsIdle
    /\ InitRankIdle
    /\ InitMergeIdle
    /\ InitDualIdle

SpecScore == InitScore /\ [][ScoreResume]_vars

(* The ranking contract, stated independently of the loop: keyword sets,   *)
(* set cardinalities and the fallback floor.                                *)

Range(s) == {s[i] : i \in DOMAIN s}

HasKeywords(c) == c \in DOMAIN category_keywords

CoreSet(c) == Range(category_keywords[c].core)
RelatedSet(c) == Range(category_keywords[c].related)

MatchedIn(keywords, text) == {k \in keywords : keyword_in_text(k, text)}

ContractScores(job, c) ==
    LET ts == 5 * Cardinality(MatchedIn(CoreSet(c), JobTitle(job)))
              + 2 * Cardinality(MatchedIn(RelatedSet(c), JobTitle(job)))
        bs == 3 * Cardinality(MatchedIn(CoreSet(c), JobText(job)))
              + 1 * Cardinality(MatchedIn(RelatedSet(c), JobText(job)))
    IN  [title_score |-> ts, body_score |-> bs, total_score |-> ts + bs,
         keep |-> \/ MatchedIn(CoreSet(c), JobText(job)) # {}
                  \/ ts >= 3
                  \/ ts + bs >= 4]

ContractTable == [c \in KeywordCategories |-> [j \in JobPool |-> ContractScores(j, c)]]

\* the positions of the jobs that pass the keep rule
KeptPositions ==
    IF category \in KeywordCategories
    THEN {i \in 1..Len(jobs) : ContractTable[category][jobs[i]].keep}
    ELSE {}

ContractTotal(i) == ContractTable[category][jobs[i]].total_score

\* k < max(3, 0.2 * n)
BelowFloor(k, n) == k < 3 \/ 5 * k < n

\* the call ran with a category that has keywords
RankedCall == pc = "done" /\ HasKeywords(category) /\ jobs # <<>>

FallbackTriggered == BelowFloor(Cardinality(KeptPositions), Len(jobs))

\* position in ret of input position i
IndexIn(s, x) == CHOOSE k \in DOMAIN s : s[k] = x

-----------------------------------------------------------------------------
(* Claims *)

\* C1: with a category that has keywords, whenever fewer than
\* max(3, 0.2 * len(jobs)) jobs pass the keep rule, the call returns the
\* original list: same elements, same order, same length.
C1_FallbackReturnsOriginal ==
    (pc = "done" /\ HasKeywords(category) /\ FallbackTriggered)
        => ret = SameList(jobs)

\* three jobs kept out of nineteen: above 3 - 1, below 0.2 * 19
C1_Witness ==
    /\ pc = "done" /\ category = "Data Science"
    /\ Len(jobs) = MaxHead + MaxFill
    /\ Cardinality(KeptPositions) = 3
    /\ ret = SameList(jobs)

C2Input ==
    /\ category = "Data Science"
    /\ Len(jobs) >= 3 + 15
    /\ jobs[1] = FullStackDeveloper     \* J3: no keyword of the category
    /\ jobs[2] = DataInDescription      \* J2: core keyword only in the description
    /\ jobs[3] = SeniorDataScientist    \* J1: core keyword in the title
    /\ \A i \in 4..Len(jobs) : jobs[i] = Clerk

\* C2 as stated: for [J3, J2, J1, fillers...] with at least 15 fillers the
\* result has J1 before J2 and holds neither J3 nor a filler.
C2_RankedDespiteFillers ==
    (pc = "done" /\ C2Input) =>
        /\ 3 \in Range(ret) /\ 2 \in Range(ret)
        /\ IndexIn(ret, 3) < IndexIn(ret, 2)
        /\ \A i \in Range(ret) : i \in {2, 3}

\* C2 amended: for that list only J1 and J2 pass the keep rule, which is
\* fewer than max(3, 0.2 * len(jobs)); the ranking the function computed
\* (J1 before J2, J3 and the fillers left out) is discarded and the input
\* list is returned unchanged.
C2_TwoKeptFallsBack ==
    (pc = "done" /\ C2Input) =>
        /\ filtered_jobs = <<3, 2>>
        /\ ret = SameList(jobs)

C2_Witness == pc = "done" /\ C2Input /\ Len(ret) = Len(jobs)

\* C3: when the fallback is not triggered, the returned list holds exactly
\* the jobs that pass the keep rule (a core keyword in the body, or
\* title_score >= 3, or total_score >= 4), each once.
C3_KeptExactly ==
    (RankedCall /\ ~FallbackTriggered) =>
        /\ Range(ret) = KeptPositions
        /\ Len(ret) = Cardinality(KeptPositions)

\* kept by a core keyword only, kept by total_score >= 4 only, and matched
\* but dropped
C3_Witness ==
    /\ RankedCall /\ ~FallbackTriggered /\ category = "Data Science"
    /\ \E i \in Range(ret) : jobs[i] = DataInDescription
    /\ \E i \in Range(ret) : jobs[i] = MLIntern
    /\ \E i \in 1..Len(jobs) : jobs[i] = FullStackInTags /\ i \notin Range(ret)

\* C4: title_score = 5 * #core-in-title + 2 * #related-in-title, body_score =
\* 3 * #core-in-body + #related-in-body, total_score is their sum; a keyword
\* counts once per field however often it occurs.
C4_ScoreFormulas ==
    RankedCall =>
        /\ Len(scores) = Len(jobs)
        /\ \A i \in 1..Len(jobs) :
             LET want == ContractTable[category][jobs[i]] IN
             /\ scores[i].title_score = want.title_score
             /\ scores[i].body_score = want.body_score
             /\ scores[i].total_score = want.title_score + want.body_score

\* a job whose description repeats a core keyword, one with a related
\* keyword in the title and one with two core keywords in the title
C4_Witness ==
    /\ RankedCall /\ category = "Data Science"
    /\ \E i \in 1..Len(jobs) : jobs[i] = BackendEngineers /\ scores[i].body_score = 6
    /\ \E i \in 1..Len(jobs) : jobs[i] = MLIntern /\ scores[i].title_score = 2
    /\ \E i \in 1..Len(jobs) : jobs[i] = SeniorDataScientist /\ scores[i].title_score = 10

\* C5: when the fallback is not triggered the result is in non-increasing
\* order of total_score and jobs of equal total_score keep their input order.
C5_SortedStable ==
    (RankedCall /\ ~FallbackTriggered) =>
        \A a, b \in 1..Len(ret) :
            a < b =>
              /\ ContractTotal(ret[a]) >= ContractTotal(ret[b])
              /\ ContractTotal(ret[a]) = ContractTotal(ret[b]) => ret[a] < ret[b]

\* a result that reorders the input and holds two different jobs of equal score
C5_Witness ==
    /\ RankedCall /\ ~FallbackTriggered
    /\ \E a, b \in 1..Len(ret) : a < b /\ ret[a] > ret[b]
    /\ \E a, b \in 1..Len(ret) :
         /\ a < b /\ jobs[ret[a]] # jobs[ret[b]]
         /\ ContractTotal(ret[a]) = ContractTotal(ret[b])

\* C6: a None or empty category, a category that is no key of the keyword
\* table, or one whose entry has no keywords returns the input list unchanged.
C6_EscapeHatch ==
    (/\ pc = "done"
     /\ \/ category = None
        \/ category = ""
        \/ ~HasKeywords(category)
        \/ (category_keywords[category].core = <<>>
            /\ category_keywords[category].related = <<>>))
        => ret = SameList(jobs)

\* the unknown category 'HR' with jobs that other categories would rank
C6_Witness ==
    /\ pc = "done" /\ category = "HR"
    /\ Len(jobs) = 3
    /\ jobs[1] = DataInDescription /\ jobs[2] = SeniorDataScientist
    /\ ret = <<1, 2, 3>>

IsSenior(i) == jobs[i] = SeniorDataScientist
IsDataOnce(i) == jobs[i] = DataInDescription

C7Input ==
    /\ pc = "done" /\ category = "Data Science"
    /\ \E i \in 1..Len(jobs) : IsSenior(i)
    /\ \E i \in 1..Len(jobs) : IsDataOnce(i)

C7Ranked ==
    /\ \A i \in 1..Len(jobs) :
         IsSenior(i) => scores[i].title_score >= 10 /\ scores[i].keep /\ i \in Range(ret)
    /\ \A a, b \in 1..Len(ret) : IsSenior(ret[a]) /\ IsDataOnce(ret[b]) => a < b

\* C7 as stated: for every list holding both jobs, in either order, 'Senior
\* Data Scientist' has title_score >= 10, is kept and comes before the job
\* that only mentions 'data' once in its description.
C7_SeniorAlwaysFirst == C7Input => C7Ranked

\* C7 amended: the same, for every list holding both jobs in which at least
\* max(3, 0.2 * len(jobs)) jobs pass the keep rule; below that the input
\* order is returned.
C7_SeniorFirstWhenRanked == (C7Input /\ ~FallbackTriggered) => C7Ranked

C7_Witness ==
    /\ C7Input /\ ~FallbackTriggered
    /\ IsDataOnce(1) /\ IsSenior(2)
    /\ ret[1] = 2

\* C9: the call does not mutate its input: on every path the list holds the
\* same job records in the same order afterwards.
C9_InputNotMutated == [][pc = "call" => jobs' = jobs]_vars

\* a call that returned a reordered sub-list
C9_Witness ==
    /\ pc = "done" /\ ret # SameList(jobs) /\ Len(ret) >= 3
    /\ \E a, b \in 1..Len(ret) : a < b /\ ret[a] > ret[b]

-----------------------------------------------------------------------------
(* Hyphenated occurrences, for C8 *)

\* sub occurs in text (both sequences of characters)
Contains(text, sub) ==
    \E i \in 1..(Len(text) - Len(sub) + 1) : SubSeq(text, i, i + Len(sub) - 1) = sub

\* the texts of the fields that make up a job's body, lower-cased
FieldTexts(job) ==
    {Lower(Chars(OrElse(Get(job, f, ""), ""))) : f \in {"title", "description", "company"}}
      \cup {Lower(Chars(t)) : t \in Range(Get(job, "tags", <<>>))}

\* the job's only occurrences of the keyword are hyphenated ones
HyphenatedOnly(job, hyphenated, spaced) ==
    /\ \E t \in FieldTexts(job) : Contains(t, Chars(hyphenated))
    /\ \A t \in FieldTexts(job) : ~Contains(t, Chars(spaced))

FullStackHyphenatedOnly == [j \in JobPool |-> HyphenatedOnly(j, "full-stack", "full stack")]
FullStackMatched == [j \in JobPool |-> keyword_in_text("full stack", JobText(j))]

\* C8: the keyword 'full stack' matches a job whose only occurrence of it is
\* the hyphenated 'full-stack', whichever of title, description, company and
\* tags the occurrence is in.
C8_HyphenInEveryField ==
    (pc = "done" /\ category = "Full Stack Developer") =>
        \A i \in 1..Len(jobs) :
            FullStackHyphenatedOnly[jobs[i]] =>
                FullStackMatched[jobs[i]] /\ scores[i].keep

-----------------------------------------------------------------------------
(* Claims about _fetch_all_jobs *)

\* the URL field of a provider record is there and not empty
HasUrl(j, field) == field \in DOMAIN j /\ j[field] # None /\ j[field] # ""

\* the records of the common schema that stem from a source record with a URL
FromRecordsWithUrl ==
    {map_jooble(j) : j \in {x \in Range(OrEmptyList(jooble_jobs)) : HasUrl(x, "link")}}
      \cup {map_scraper(j) : j \in {x \in Range(OrEmptyList(scraped_jobs)) : HasUrl(x, "url")}}

\* C10: a source record whose URL is empty or missing (a Jooble record
\* without 'link', a scraper record without 'url') never appears in the
\* merged output: every output record stems from a source record with a URL.
C10_NoUrlRecordsDropped ==
    mpc = "done" => \A k \in 1..Len(unique) : unique[k] \in FromRecordsWithUrl

-----------------------------------------------------------------------------
(* C11: de-duplication by URL in _fetch_all_jobs *)

\* the concatenated list the loop of _fetch_all_jobs runs over
MergedNow == Merged(OrEmptyList(jooble_jobs), OrEmptyList(scraped_jobs))

\* the first position of merged that carries the URL u
FirstPos(u) ==
    CHOOSE i \in 1..Len(MergedNow) :
        /\ MergedNow[i].url = u
        /\ \A j \in 1..(i - 1) : MergedNow[j].url # u

MergedUrls == {MergedNow[i].url : i \in 1..Len(MergedNow)}

\* C11: the output of _fetch_all_jobs holds each distinct non-empty URL of
\* the concatenated list exactly once and no other record; the record kept
\* for a URL is the first one with that URL in the concatenation; the kept
\* records are in the order they have in the concatenation.
C11_FirstPerUrlInOrder ==
    mpc = "done" =>
        /\ \A u \in MergedUrls :
               TruthyStr(u) => Cardinality({k \in 1..Len(unique) : unique[k].url = u}) = 1
        /\ \A k \in 1..Len(unique) :
               /\ unique[k].url \in MergedUrls
               /\ TruthyStr(unique[k].url)
               /\ unique[k] = MergedNow[FirstPos(unique[k].url)]
        /\ \A a, b \in 1..Len(unique) :
               a < b => FirstPos(unique[a].url) < FirstPos(unique[b].url)

\* a URL carried by two different records, one of each source, and two
\* records kept
C11_Witness ==
    /\ mpc = "done"
    /\ Len(unique) >= 2
    /\ \E i, j \in 1..Len(MergedNow) :
           /\ i < j
           /\ MergedNow[i].url = MergedNow[j].url
           /\ TruthyStr(MergedNow[i].url)
           /\ MergedNow[i] # MergedNow[j]

-----------------------------------------------------------------------------
(* C14: the defaults of the common schema *)

\* the provider record that position i of merged was mapped from
SourceRecord(i) ==
    LET jooble == OrEmptyList(jooble_jobs) IN
    IF i <= Len(jooble) THEN jooble[i] ELSE OrEmptyList(scraped_jobs)[i - Len(jooble)]

FromJooble(i) == i <= Len(OrEmptyList(jooble_jobs))

LocationMissing(r) == "location" \notin DOMAIN r \/ r["location"] \in {"", None}

\* C14: an output record of _fetch_all_jobs has location 'Remote' when its
\* source record has no location or an empty one, and tags [] when it comes
\* from Jooble or from a scraper record without tags; no output record has
\* an empty location.
C14_SchemaDefaults ==
    mpc = "done" =>
        \A k \in 1..Len(unique) :
            LET i == FirstPos(unique[k].url)
                r == SourceRecord(i)
            IN  /\ unique[k].location \notin {"", None}
                /\ LocationMissing(r) => unique[k].location = "Remote"
                /\ FromJooble(i) => unique[k].tags = <<>>
                /\ (~FromJooble(i) /\ "tags" \notin DOMAIN r) => unique[k].tags = <<>>

\* kept: a Jooble record with an empty location, a scraper record without
\* tags and a record without a location key
C14_Witness ==
    /\ mpc = "done"
    /\ \E k \in 1..Len(unique) :
           LET i == FirstPos(unique[k].url) IN
           FromJooble(i) /\ "location" \in DOMAIN SourceRecord(i)
               /\ SourceRecord(i)["location"] = ""
    /\ \E k \in 1..Len(unique) :
           LET i == FirstPos(unique[k].url) IN
           ~FromJooble(i) /\ "tags" \notin DOMAIN SourceRecord(i)

-----------------------------------------------------------------------------
(* C12, C13: the two job sources *)

\* what a source adds to the listings: nothing when it failed or returned
\* nothing
Contribution(r) == IF r.raised \/ r.none THEN <<>> ELSE r.items

\* C12: a source that raises or returns nothing does not fail the fetch:
\* neither _fetch_all_jobs nor the two-worker fetch of
\* display_job_recommendations_dual ends with an exception; the failing
\* source contributes no listing and the other source's listings are intact.
C12_SourceFailureIsolated ==
    /\ mpc # "raised"
    /\ dpc \notin {"exit_raising", "raised"}
    /\ mpc = "done" =>
           unique = DedupFrom(Merged(Contribution(jooble_jobs), Contribution(scraped_jobs)), 1, {})
    /\ dpc = "filter" =>
           /\ dual_jooble_jobs = Contribution(jooble_jobs)
           /\ internshala_jobs = Contribution(scraped_jobs)

\* C13: in display_job_recommendations_dual the caller reaches the category
\* filter only after both futures finished, whatever the order the workers
\* start and finish in; the Jooble call's result is bound to the Jooble
\* list and the Internshala call's result to the Internshala list; in the
\* output of _fetch_all_jobs every Jooble listing precedes every scraper
\* listing.
C13_JoinBindOrder ==
    /\ dpc \in {"result_f2", "exit", "filter"} =>
           /\ future["f1"].state = "finished"
           /\ dual_jooble_jobs = OrEmptyList(jooble_jobs)
    /\ dpc \in {"exit", "filter"} =>
           /\ future["f2"].state = "finished"
           /\ internshala_jobs = OrEmptyList(scraped_jobs)
    /\ mpc = "done" =>
           \A a, b \in 1..Len(unique) :
               (a < b /\ FromJooble(FirstPos(unique[b].url)))
                   => FromJooble(FirstPos(unique[a].url))

\* the scraper's worker finished first, both lists are bound and differ, and
\* the merged output holds listings of both sources
C13_Witness ==
    /\ dpc = "filter"
    /\ completed = <<"f2", "f1">>
    /\ dual_jooble_jobs # <<>>
    /\ internshala_jobs # <<>>
    /\ mpc = "done"
    /\ \E a, b \in 1..Len(unique) :
           FromJooble(FirstPos(unique[a].url)) /\ ~FromJooble(FirstPos(unique[b].url))

-----------------------------------------------------------------------------
(* Claims about categorize_skills *)

\* a skill after trimming; '' for None
Trimmed(s) == Text(Strip(Chars(OrElse(s, ""))))

\* the items of out whose list holds x
ItemsHolding(x) == {n \in 1..Len(out) : x \in Range(out[n].v)}

\* C15: categorize_skills partitions its input: every input skill that is
\* not blank after trimming is in exactly one category of the output, a
\* skill whose normalized form is in no membership table is in 'Other', a
\* blank skill is in no category (the output holds trimmed input skills
\* only), and no category of the output is empty.
C15_Partition ==
    spc = "done" =>
        /\ \A i \in 1..Len(skills) :
               Trimmed(skills[i]) # "" =>
                   /\ Cardinality(ItemsHolding(Trimmed(skills[i]))) = 1
                   /\ res[i].low \notin Known =>
                          \A n \in ItemsHolding(Trimmed(skills[i])) : out[n].k = "Other"
        /\ \A n \in 1..Len(out) :
               /\ out[n].v # <<>>
               /\ \A x \in Range(out[n].v) :
                      /\ Trimmed(x) # ""
                      /\ \E i \in 1..Len(skills) : x = Trimmed(skills[i])
        /\ \A n, m \in 1..Len(out) : n # m => out[n].k # out[m].k

\* a blank skill, an unknown skill and a known one in one call
C15_Witness ==
    /\ spc = "done"
    /\ \E i, j, l \in 1..Len(skills) :
           /\ skills[i] = "  "
           /\ skills[j] = "zzqux"
           /\ res[l].low \in Known
    /\ Len(out) = 2

\* C16: within a category the entries are de-duplicated by normalized form:
\* no two entries of a category have the same normalized form ('Python' and
\* 'python', 'ReactJS' and 'react' give one entry).
C16_OneEntryPerNormalizedForm ==
    spc = "done" =>
        \A n \in 1..Len(out) :
            \A a, b \in 1..Len(out[n].v) :
                a # b => norm(out[n].v[a]).low # norm(out[n].v[b]).low

\* C17: the normalizer is idempotent: normalizing the normalized form of a
\* skill gives the same normalized form.
C17_NormIdempotent ==
    spc = "done" =>
        \A i \in 1..Len(res) :
            ~res[i].none =>
                /\ ~norm(res[i].low).none
                /\ norm(res[i].low).low = res[i].low

\* the membership table whose members are appended to the key k
TableOfKey(k) ==
    CASE k = "Languages" -> langs
      [] k = "Frontend" -> frontend
      [] k = "Backend" -> backend
      [] k = "Libraries / Data-ML" -> libs
      [] k = "Databases" -> dbs
      [] k = "Cloud / DevOps" -> devops
      [] k = "Mobile" -> mobile
      [] k = "Tools / Platforms" -> tools
      [] k = "Embedded / Hardware" -> embedded
      [] k = "Soft Skills" -> soft
      [] k = "Concepts" -> concepts
      [] OTHER -> {}

\* C18: for a member s of a membership table categorize_skills([s]) has
\* exactly one category, which is not 'Other' and is the category of the
\* table that contains s; categorize_skills(['zzqux']) is {'Other': ['zzqux']}.
C18_MemberGetsItsTable ==
    (spc = "done" /\ Len(skills) = 1) =>
        /\ skills[1] \in Known =>
               /\ Len(out) = 1
               /\ out[1].k # "Other"
               /\ skills[1] \in TableOfKey(out[1].k)
               /\ out[1].v = <<skills[1]>>
        /\ skills[1] = "zzqux" => out = <<[k |-> "Other", v |-> <<"zzqux">>]>>

C18_Witness ==
    /\ spc = "done"
    /\ skills = <<"teamwork">>
    /\ Len(out) = 1

\* the tests of the loop in another order: reversed, or rotated by r
ReversedTests == [i \in 1..Len(TestOrder) |-> TestOrder[Len(TestOrder) + 1 - i]]

Rotated(tests, r) == [i \in 1..Len(tests) |-> tests[((i - 1 + r) % Len(tests)) + 1]]

OtherOrders ==
    {Rotated(TestOrder, r) : r \in 0..(Len(TestOrder) - 1)}
      \cup {Rotated(ReversedTests, r) : r \in 0..(Len(TestOrder) - 1)}

\* C19: the membership tables are pairwise disjoint, so the category a
\* skill is put in does not depend on the order of the tests: run in any
\* other order the tests give the category the skill is found in.
C19_TablesDisjoint ==
    /\ \A i, j \in 1..Len(TestOrder) :
           i # j => TestOrder[i].table \cap TestOrder[j].table = {}
    /\ spc = "done" =>
           \A i \in 1..Len(res) :
               ~res[i].none =>
                   \A tests \in OtherOrders :
                       \A n \in ItemsHolding(res[i].orig) :
                           out[n].k = FirstMatch(res[i].low, tests, 1)

\* a member of the table tested last
C19_Witness ==
    /\ spc = "done"
    /\ Len(skills) = 1
    /\ res[1].low \in concepts
    /\ out[1].k = "Concepts"

\* C20: categorize_skills(['ReactJS', 'Node JS', 'python', 'SQL']) returns
\* Languages: ['python'], Frontend: ['ReactJS'], Backend: ['Node JS'],
\* Databases: ['SQL'] and no other category.
C20_Scenario ==
    (spc = "done" /\ skills = <<"ReactJS", "Node JS", "python", "SQL">>) =>
        /\ Len(out) = 4
        /\ Range(out) =
               {[k |-> "Languages", v |-> <<"python">>],
                [k |-> "Frontend", v |-> <<"ReactJS">>],
                [k |-> "Backend", v |-> <<"Node JS">>],
                [k |-> "Databases", v |-> <<"SQL">>]}

C20_Witness ==
    /\ spc = "done"
    /\ skills = <<"ReactJS", "Node JS", "python", "SQL">>
    /\ res[2].low = "node.js"

\* the display order of the categories
DisplayOrder ==
    <<"Languages", "Frontend", "Backend", "Libraries / Data-ML", "Databases",
      "Cloud / DevOps", "Mobile", "Tools / Platforms", "Embedded / Hardware",
      "Concepts", "Soft Skills", "Other">>

DisplayRank(k) == CHOOSE n \in 1..Len(DisplayOrder) : DisplayOrder[n] = k

\* C21: the categories of the output of categorize_skills are in the fixed
\* display order, absent categories skipped, whatever the order of the
\* skills in the input.
C21_DisplayOrder ==
    spc = "done" =>
        /\ \A n \in 1..Len(out) : \E d \in 1..Len(DisplayOrder) : DisplayOrder[d] = out[n].k
        /\ \A n, m \in 1..Len(out) :
               n < m => DisplayRank(out[n].k) < DisplayRank(out[m].k)

\* skills met in the reverse of the display order
C21_Witness ==
    /\ spc = "done"
    /\ skills = <<"os", "teamwork", "zzqux", "Git">>
    /\ Len(out) = 4
    /\ out[1].k = "Cloud / DevOps"

-----------------------------------------------------------------------------
(* C27: what filter_jobs_by_category can return *)

\* C27: the list filter_jobs_by_category returns is the input list, or a
\* list of input jobs, none more often than it occurs in the input, of at
\* least max(3, 0.2 * len(jobs)) jobs; it is not empty for a non-empty
\* input and is the input list when the input has fewer than 3 jobs.
C27_InputOrLongSubList ==
    pc = "done" =>
        /\ \/ ret = SameList(jobs)
           \/ /\ \A k \in 1..Len(ret) : ret[k] \in 1..Len(jobs)
              /\ \A k, l \in 1..Len(ret) : k # l => ret[k] # ret[l]
              /\ ~BelowFloor(Len(ret), Len(jobs))
        /\ jobs # <<>> => ret # <<>>
        /\ Len(jobs) < 3 => ret = SameList(jobs)

\* a ranked result that is shorter than the input and in another order
C27_Witness ==
    /\ pc = "done"
    /\ Len(ret) < Len(jobs)
    /\ Len(ret) = 3
    /\ \E k \in 1..(Len(ret) - 1) : ret[k] > ret[k + 1]

-----------------------------------------------------------------------------
(* C30: check_gemini_health *)

\* C30: check_gemini_health never raises: for every configuration it
\* returns a dict whose status is 'healthy' or 'error', with an 'error'
\* message in the 'error' case.
C30_HealthNeverRaises ==
    hpc = "done" =>
        /\ ~health.raised
        /\ "status" \in DOMAIN health.value
        /\ health.value["status"] \in {"healthy", "error"}
        /\ health.value["status"] = "error" => "error" \in DOMAIN health.value


----------------------------------------------------------------------------
(* The resume cache across reruns *)

\* the step of a rerun that handles the upload widget
UploadStep == rpc = "upload" /\ rpc' # "upload"

\* the file selected in the rerun is the one whose identity is cached
SameFileSelected ==
    pdf_file # NoFile /\ Get(session_state, "resume_id", None) = ResumeId(pdf_file)

\* a file is selected and its identity is not the cached one
OtherFileSelected ==
    pdf_file # NoFile /\ Get(session_state, "resume_id", None) # ResumeId(pdf_file)

CachedResume(session) == Get(session, "resume_data", NoDict)

\* C22: across the reruns of a session the resume is parsed, and its
\* category predicted, only in an upload step whose file has an identity
\* (save path and size) other than the cached resume_id; while the same file
\* stays selected the cached resume_data is what the rerun uses, and no step
\* of the rerun parses again or replaces the cached record.
C22_ParsedOnlyOnNewIdentity ==
    [][/\ (UploadStep /\ (parsed' # "no" \/ prediction' # NoDict))
            => OtherFileSelected
       /\ (UploadStep /\ SameFileSelected)
            => /\ parsed' = "no"
               /\ resume_data' = CachedResume(session_state)
       /\ (~UploadStep => parsed' = parsed \/ rpc' = "upload")
       /\ CachedResume(session_state') # CachedResume(session_state)
            => (UploadStep /\ OtherFileSelected)
      ]_vars

C22_Witness ==
    /\ rpc = "idle"
    /\ reruns >= 2
    /\ SameFileSelected
    /\ parsed = "no"
    /\ Truthy(resume_data)
    /\ resume_data = CachedResume(session_state)

----------------------------------------------------------------------------
(* The classifier *)

\* no model was loaded, or its predict / predict_proba raises
Unusable(classifier) == ~classifier.loaded \/ classifier.predicts.raised

----------------------------------------------------------------------------
(* A failed parse *)

\* the two sessions agree on whether key is set and on its value
SameAt(s, t, key) ==
    /\ (key \in DOMAIN s) <=> (key \in DOMAIN t)
    /\ key \in DOMAIN s => s[key] = t[key]

ResumeKeys == {"resume_id", "resume_path", "resume_data", "chat_messages"}

\* the upload step parses a file with a new identity and the parse fails
FailingUploadStep == UploadStep /\ OtherFileSelected /\ pdf_file.parses.raised

\* C24: when the parse of a newly uploaded file fails the resume is absent
\* from the rerun: the rerun has no record and computes no score, and
\* resume_id, resume_path, resume_data and chat_messages of the session keep
\* the values they had before the upload.
C24_FailedParseLeavesSession ==
    [][/\ FailingUploadStep
            => /\ \A key \in ResumeKeys : SameAt(session_state, session_state', key)
               /\ resume_data' = NoDict
               /\ breakdown' = NoDict
               /\ rpc' = "failed"
       /\ rpc = "failed" => (rpc' = "upload" /\ breakdown' = NoDict)
      ]_vars

C24_Witness ==
    /\ rpc = "failed"
    /\ parsed = "upload"
    /\ pdf_file # NoFile
    /\ pdf_file.parses.raised
    /\ "resume_id" \in DOMAIN session_state
    /\ session_state["resume_id"] # ResumeId(pdf_file)
    /\ Truthy(CachedResume(session_state))
    /\ Len(ChatMessages(session_state)) > 0
    /\ breakdown = NoDict

----------------------------------------------------------------------------
(* The target role *)

\* the rerun has scored its record
Scored == rpc \in {"jobs", "save", "chat", "idle"} /\ breakdown # NoDict

\* C25: with a target role other than 'Auto-detect' selected, the record
\* given to the scorer has target_role equal to the selected role; with
\* 'Auto-detect' it has no target_role; in both cases the record is otherwise
\* the resume record, and the resume record of the rerun and the one cached
\* in the session are as they were before the score.
C25_TargetRoleOnCopyOnly ==
    [][(rpc = "score" /\ rpc' = "jobs")
          => /\ role # "Auto-detect"
                  => /\ "target_role" \in DOMAIN resume_for_score'
                     /\ resume_for_score'["target_role"] = role
             /\ role = "Auto-detect"
                  => "target_role" \notin DOMAIN resume_for_score'
             /\ \A key \in DOMAIN resume_data : SameAt(resume_data, resume_for_score', key)
             /\ DOMAIN resume_for_score' \subseteq DOMAIN resume_data \cup {"target_role"}
             /\ resume_data' = resume_data
             /\ CachedResume(session_state') = CachedResume(session_state)
      ]_vars

C25_Witness ==
    /\ Scored
    /\ role = "Data Analyst"
    /\ Get(resume_for_score, "target_role", None) = "Data Analyst"
    /\ "target_role" \notin DOMAIN resume_data
    /\ "target_role" \notin DOMAIN CachedResume(session_state)
    /\ Truthy(CachedResume(session_state))

----------------------------------------------------------------------------
(* The score *)

----------------------------------------------------------------------------
(* The database *)

Rows == {db_rows[i] : i \in 1..Len(db_rows)}

\* the row the rerun would write
RowOfRun ==
    [resume_id |-> Get(session_state, "resume_id", ""),
     email |-> Get(resume_data, "email", None)]

\* the rerun reaches the save with a record that has a name and an email and
\* with a resume identity
Savable ==
    /\ TruthyStr(Get(resume_data, "name", None))
    /\ TruthyStr(Get(resume_data, "email", None))
    /\ Get(session_state, "resume_id", "") # ""

\* C28: across the reruns of a session a resume (resume_id and email) is
\* written by a successful insert_user_data at most once: insert_user_data
\* is called only for a resume that no earlier call has written, a failed
\* call writes no row and leaves the flag unset, and the save of a later
\* rerun with a resume not yet written calls insert_user_data again.
C28_SavedAtMostOnce ==
    /\ [](\A i, j \in 1..Len(db_rows) : db_rows[i] = db_rows[j] => i = j)
    /\ [](\A r \in Rows : Get(session_state, ResumeDbKey(r.resume_id, r.email), FALSE))
    /\ []((insert_call # NoDict /\ ~insert_call.success)
             => ~Get(session_state,
                     ResumeDbKey(insert_call.resume_id, insert_call.email), FALSE))
    /\ [][(rpc = "save" /\ rpc' = "chat")
             => /\ insert_call' # NoDict => (Savable /\ RowOfRun \notin Rows)
                /\ (Savable /\ RowOfRun \notin Rows) => insert_call' # NoDict
                /\ (insert_call' # NoDict /\ ~insert_call'.success) => db_rows' = db_rows
         ]_vars

C28_Witness ==
    /\ rpc = "idle"
    /\ reruns >= 2
    /\ Savable
    /\ RowOfRun \in Rows
    /\ insert_call = NoDict
    /\ breakdown # NoDict

----------------------------------------------------------------------------
(* The chat history *)

\* the upload step parsed a file with a new identity
NewResumeStep == UploadStep /\ OtherFileSelected /\ rpc' # "failed"

\* C29: the chat history belongs to the current resume: the step that
\* parses a file with a new identity and stores its resume_id also sets
\* chat_messages to the empty list, resume_id changes in no other step, the
\* upload step of a rerun with the same file and every step other than the
\* chat itself leave chat_messages as they are, and so every message of the
\* history was written under the resume_id that is current.
C29_ChatOfCurrentResume ==
    /\ [](\A i \in 1..Len(ChatMessages(session_state)) :
             ChatMessages(session_state)[i].under = Get(session_state, "resume_id", None))
    /\ [][/\ NewResumeStep
               => /\ Get(session_state', "resume_id", None) = ResumeId(pdf_file)
                  /\ "chat_messages" \in DOMAIN session_state'
                  /\ session_state'["chat_messages"] = <<>>
          /\ ~SameAt(session_state, session_state', "resume_id") => NewResumeStep
          /\ (UploadStep /\ SameFileSelected)
               => SameAt(session_state, session_state', "chat_messages")
          /\ ~SameAt(session_state, session_state', "chat_messages")
               => (NewResumeStep \/ rpc = "chat")
         ]_vars

C29_Witness ==
    /\ rpc = "idle"
    /\ Len(ChatMessages(session_state)) = 2
    /\ ChatMessages(session_state)[1].under = Get(session_state, "resume_id", None)
    /\ \E r \in Rows : r.resume_id # Get(session_state, "resume_id", None)
=============================================================================
